---- MODULE Spec2Model ----
(***************************************************************************)
(* Resource-protection layer of Analisar-Logs-com-IA:                      *)
(*   src/src/services/cache_service.py  (CacheEntry, MetricsCacheService)  *)
(*   src/src/services/rate_limiter.py   (TokenBucket, SlidingWindowLimiter,*)
(*                                       RateLimiterService)               *)
(*   src/src/utils/error_handling.py    (ErrorHandler.with_retry)          *)
(*                                                                         *)
(* Code that runs under one `with self._lock:` / `with self.lock:` block   *)
(* is one atomic action; code outside a lock is split at every point where *)
(* another thread can run.  time.time() is the variable `now`.             *)
(***************************************************************************)
EXTENDS Integers, Sequences, FiniteSets, TLC

VARIABLES
    now,                \* time.time(), in seconds
    max_entries,        \* MetricsCacheService.max_entries
    cache,              \* MetricsCacheService._cache: entries in dict (insertion) order
    stats,              \* MetricsCacheService._stats
    refresh_functions,  \* keys of MetricsCacheService._refresh_functions
    gos,                \* per worker: the get_or_set call in progress
    rf,                 \* the background refresh thread
    ev,                 \* the last step of a cache operation and what it returned
    scn,                \* how far the run so far follows set A, set B, set C, get A, get B, get C
    tb,                 \* one TokenBucket
    tbRet,              \* what the last call on it returned
    tbLog,              \* the consume(1) calls made on it, while no other call was made
    sw,                 \* one SlidingWindowLimiter
    swRet,              \* what the last call on it returned
    swLog,              \* every is_allowed() call made on it
    global_limiter,     \* RateLimiterService.global_limiter
    limiters,           \* RateLimiterService.limiters: endpoint -> config and instances
    heap,               \* the limiter objects created by the service, by identity
    rstats,             \* RateLimiterService.stats
    req,                \* per worker: the RateLimiterService.is_allowed call in progress
    svcLog,             \* the calls begun, the resets, the decisions returned
    retry,              \* one call of a function wrapped by ErrorHandler.with_retry
    locks,              \* for each lock, the thread inside its `with` block, if any
    th                  \* per thread: its position relative to the locks

cacheVars == <<max_entries, cache, stats, refresh_functions, gos, rf, ev, scn>>
bucketVars == <<tb, tbRet, tbLog>>
windowVars == <<sw, swRet, swLog>>
serviceVars == <<global_limiter, limiters, heap, rstats, req, svcLog>>
retryVars == <<retry>>
lockVars == <<locks, th>>
vars == <<now, max_entries, cache, stats, refresh_functions, gos, rf, ev, scn,
          tb, tbRet, tbLog, sw, swRet, swLog,
          global_limiter, limiters, heap, rstats, req, svcLog, retry, locks, th>>

----------------------------------------------------------------------------
(* Bounds of the model *)

MaxStat == 4         \* the statistics counters stop when their sum is MaxStat
MaxTicks == 3        \* the cache clock stops after MaxTicks refresh intervals
MaxClock == 3        \* the limiters' clock stops at MaxClock seconds
MaxCapacity == 5     \* TokenBucket.capacity ranges over 0..MaxCapacity
MaxRequests == 2     \* SlidingWindowLimiter.max_requests ranges over 1..MaxRequests
MaxWindow == 2       \* SlidingWindowLimiter.window_seconds ranges over 1..MaxWindow
MaxCalls == 5        \* is_allowed() is called at most MaxCalls times
MaxDecisions == 2    \* RateLimiterService.is_allowed is called at most MaxDecisions times
MaxAttempts == 3     \* RetryConfig.max_attempts ranges over 1..MaxAttempts

Keys == {"A", "B", "C"}
Data == {"v1", "v2"}
Workers == {"w1", "w2"}

(* Python values *)
None == "None"
Raise == "raise"         \* a callback that raises an Exception
NoTtl == -1              \* the argument ttl left out (ttl=None)
TtlArgs == {NoTtl, 0, 30, 90}

(* Program constants *)
default_ttl == 300
stale_threshold == 60
join_timeout == 5
refresh_interval == 30

----------------------------------------------------------------------------
(* CacheEntry *)

CacheEntry(key, data, ttl, t) ==
    [key |-> key, data |-> data, created_at |-> t, ttl_seconds |-> ttl,
     access_count |-> 0, last_accessed |-> t]

is_expired_ge(e, t) == t - e.created_at >= e.ttl_seconds

is_expired(e, t) == t - e.created_at > e.ttl_seconds

is_stale_without_expiry(e, t) == t - e.created_at > stale_threshold

is_stale(e, t) == (t - e.created_at > stale_threshold) /\ ~is_expired(e, t)

access_touching_created(e, t) ==
    [e EXCEPT !.access_count = @ + 1, !.last_accessed = t, !.created_at = t]

access(e, t) == [e EXCEPT !.access_count = @ + 1, !.last_accessed = t]

----------------------------------------------------------------------------
(* MetricsCacheService: the dict _cache as a sequence in insertion order *)

KeysOf(c) == {c[i].key : i \in 1..Len(c)}

IndexOf(c, k) == CHOOSE i \in 1..Len(c) : c[i].key = k

RemoveAt(c, i) == [j \in 1..(Len(c) - 1) |-> IF j < i THEN c[j] ELSE c[j + 1]]

Store_appending(c, e) == Append(c, e)

(* dict item assignment: an existing key keeps its place, a new key goes last *)
Store(c, e) ==
    IF e.key \in KeysOf(c) THEN [c EXCEPT ![IndexOf(c, e.key)] = e] ELSE Append(c, e)

(* get, lines 112-136: the value returned, the dict and the counters afterwards *)
Hit(c, k, t) == k \in KeysOf(c) /\ ~is_expired(c[IndexOf(c, k)], t)

get_value(c, k, t) == IF Hit(c, k, t) THEN c[IndexOf(c, k)].data ELSE None

get_cache(c, k, t) ==
    IF k \notin KeysOf(c) THEN c
    ELSE IF is_expired(c[IndexOf(c, k)], t) THEN RemoveAt(c, IndexOf(c, k))
    ELSE [c EXCEPT ![IndexOf(c, k)] = access(c[IndexOf(c, k)], t)]

get_stats(s, c, k, t) ==
    IF Hit(c, k, t) THEN [s EXCEPT !.hits = @ + 1] ELSE [s EXCEPT !.misses = @ + 1]

(* min(self._cache.keys(), key=last_accessed): the first minimum in dict order *)
lru_index_last(c) ==
    CHOOSE i \in 1..Len(c) :
        /\ \A j \in 1..Len(c) : c[i].last_accessed <= c[j].last_accessed
        /\ \A j \in (i + 1)..Len(c) : c[i].last_accessed < c[j].last_accessed

lru_index(c) ==
    CHOOSE i \in 1..Len(c) :
        /\ \A j \in 1..Len(c) : c[i].last_accessed <= c[j].last_accessed
        /\ \A j \in 1..(i - 1) : c[j].last_accessed > c[i].last_accessed

(* _evict_lru, lines 172-184 *)
evict_lru_cache(c) == IF Len(c) = 0 THEN c ELSE RemoveAt(c, lru_index(c))

evict_lru_stats(s, c) == IF Len(c) = 0 THEN s ELSE [s EXCEPT !.evictions = @ + 1]

(* set, line 157 *)
must_evict_gt(c, k) == Len(c) > max_entries /\ k \notin KeysOf(c)

must_evict(c, k) == Len(c) >= max_entries /\ k \notin KeysOf(c)

(* set, line 153: ttl = ttl or self.default_ttl *)
effective_ttl(ttl) == IF ttl = NoTtl \/ ttl = 0 THEN default_ttl ELSE ttl

(* set, lines 155-165 *)
set_cache(c, k, d, ttl, t) ==
    Store(IF must_evict(c, k) THEN evict_lru_cache(c) ELSE c,
          CacheEntry(k, d, effective_ttl(ttl), t))

set_stats(s, c, k) == IF must_evict(c, k) THEN evict_lru_stats(s, c) ELSE s

----------------------------------------------------------------------------
(* What the last step did *)

(* fetch: "no" callback was called, or it returned a "value", returned "none",  *)
(* or did "raise".  exc: the operation raised to its caller; no operation      *)
(* modelled here does.  log: the logger.debug line the step wrote.             *)
Event(op, k, d, ttl, res, fetch) ==
    [op |-> op, key |-> k, data |-> d, ttl |-> ttl, res |-> res, fetch |-> fetch,
     exc |-> FALSE, log |-> ""]

(* get, lines 117, 124 and 135: which of the three messages is logged *)
get_log(c, k, t) ==
    IF k \notin KeysOf(c) THEN "miss"
    ELSE IF is_expired(c[IndexOf(c, k)], t) THEN "expired" ELSE "hit"

(* The scenario of spec.md section 8, every set with ttl left out *)
Scenario ==
    << <<"set", "A">>, <<"set", "B">>, <<"set", "C">>,
       <<"get", "A">>, <<"get", "B">>, <<"get", "C">> >>

ScnOff == Len(Scenario) + 1

ScnStep(op, k, ttl) ==
    IF scn < Len(Scenario) /\ Scenario[scn + 1] = <<op, k>> /\ ttl = NoTtl
    THEN scn + 1 ELSE ScnOff

----------------------------------------------------------------------------
(* Foreground operations of the cache *)

Idle == [pc |-> "idle", key |-> None, ttl |-> NoTtl, fresh |-> None, tmp |-> 0]

(* the counters' sum, with the increments that running calls are about to make *)
Counted ==
    stats.hits + stats.misses + stats.evictions + stats.refreshes + stats.errors
    + Cardinality({w \in Workers : gos[w].pc \in {"err_load", "err_store"}})
    + (IF rf.pc \in {"set", "count", "err_load", "err_store"} THEN 1 ELSE 0)

CanCount == Counted < MaxStat

Get(k) ==
    /\ CanCount
    /\ cache' = get_cache(cache, k, now)
    /\ stats' = get_stats(stats, cache, k, now)
    /\ ev' = [Event("get", k, None, NoTtl, get_value(cache, k, now), "no")
                 EXCEPT !.log = get_log(cache, k, now)]
    /\ scn' = ScnStep("get", k, NoTtl)
    /\ UNCHANGED <<now, max_entries, refresh_functions, gos, rf, bucketVars, windowVars,
                   serviceVars, retryVars, lockVars>>

Set(k, d, ttl) ==
    /\ must_evict(cache, k) => CanCount
    /\ cache' = set_cache(cache, k, d, ttl, now)
    /\ stats' = set_stats(stats, cache, k)
    /\ ev' = Event("set", k, d, ttl, "True", "no")
    /\ scn' = ScnStep("set", k, ttl)
    /\ UNCHANGED <<now, max_entries, refresh_functions, gos, rf, bucketVars, windowVars,
                   serviceVars, retryVars, lockVars>>

(* set, lines 151-170, when logger.debug of line 164 raises: the entry is       *)
(* already stored, and the except clause counts an error and returns False     *)
SetLogRaises(k, d, ttl) ==
    /\ Counted + 1 < MaxStat
    /\ cache' = set_cache(cache, k, d, ttl, now)
    /\ stats' = [set_stats(stats, cache, k) EXCEPT !.errors = @ + 1]
    /\ ev' = [Event("set", k, d, ttl, "False", "no") EXCEPT !.log = "failed"]
    /\ scn' = ScnOff
    /\ UNCHANGED <<now, max_entries, refresh_functions, gos, rf, bucketVars, windowVars,
                   serviceVars, retryVars, lockVars>>

(* get, lines 112-136, when logger.debug of line 117, 124 or 135 raises: the    *)
(* counters and the entry are already updated, the exception leaves get and    *)
(* log_operation raises it again (logging_config.py line 184)                  *)
GetLogRaises(k) ==
    /\ CanCount
    /\ cache' = get_cache(cache, k, now)
    /\ stats' = get_stats(stats, cache, k, now)
    /\ ev' = [Event("get", k, None, NoTtl, Raise, "no") EXCEPT !.exc = TRUE, !.log = "failed"]
    /\ scn' = ScnOff
    /\ UNCHANGED <<now, max_entries, refresh_functions, gos, rf, bucketVars, windowVars,
                   serviceVars, retryVars, lockVars>>

Invalidate(k) ==
    /\ cache' = IF k \in KeysOf(cache) THEN RemoveAt(cache, IndexOf(cache, k)) ELSE cache
    /\ ev' = Event("invalidate", k, None, NoTtl,
                   IF k \in KeysOf(cache) THEN "True" ELSE "False", "no")
    /\ scn' = ScnOff
    /\ UNCHANGED <<now, max_entries, stats, refresh_functions, gos, rf, bucketVars, windowVars,
                   serviceVars, retryVars, lockVars>>

Clear ==
    /\ cache' = <<>>
    /\ ev' = Event("clear", None, None, NoTtl, None, "no")
    /\ scn' = ScnOff
    /\ UNCHANGED <<now, max_entries, stats, refresh_functions, gos, rf, bucketVars, windowVars,
                   serviceVars, retryVars, lockVars>>

RegisterRefreshFunction(k) ==
    /\ k \notin refresh_functions
    /\ refresh_functions' = refresh_functions \cup {k}
    /\ ev' = Event("register", k, None, NoTtl, None, "no")
    /\ scn' = ScnOff
    /\ UNCHANGED <<now, max_entries, cache, stats, gos, rf, bucketVars, windowVars,
                   serviceVars, retryVars, lockVars>>

----------------------------------------------------------------------------
(* get_or_set, lines 266-297, called by worker w *)

(* line 280: cached_data = self.get(key); line 281: is not None *)
GosGet(w, k, ttl) ==
    /\ gos[w].pc = "idle"
    /\ CanCount
    /\ cache' = get_cache(cache, k, now)
    /\ stats' = get_stats(stats, cache, k, now)
    /\ IF get_value(cache, k, now) # None
       THEN /\ ev' = [Event("get_or_set", k, None, ttl, get_value(cache, k, now), "no")
                         EXCEPT !.log = get_log(cache, k, now)]
            /\ gos' = gos
       ELSE /\ ev' = [Event("gos_get", k, None, ttl, None, "no")
                         EXCEPT !.log = get_log(cache, k, now)]
            /\ gos' = [gos EXCEPT ![w] = [Idle EXCEPT !.pc = "fetch", !.key = k, !.ttl = ttl]]
    /\ scn' = ScnOff
    /\ UNCHANGED <<now, max_entries, refresh_functions, rf, bucketVars, windowVars,
                   serviceVars, retryVars, lockVars>>

(* line 287: fresh_data = fetch_func(), outside every lock *)
GosFetch(w, r) ==
    /\ gos[w].pc = "fetch"
    /\ r = Raise => CanCount
    /\ IF r = Raise
       THEN gos' = [gos EXCEPT ![w].pc = "err_load"] /\ ev' = ev
       ELSE IF r = None
       THEN /\ gos' = [gos EXCEPT ![w] = Idle]
            /\ ev' = Event("get_or_set", gos[w].key, None, gos[w].ttl, None, "none")
       ELSE gos' = [gos EXCEPT ![w].pc = "set", ![w].fresh = r] /\ ev' = ev
    /\ scn' = ScnOff
    /\ UNCHANGED <<now, max_entries, cache, stats, refresh_functions, rf, bucketVars, windowVars,
                   serviceVars, retryVars, lockVars>>

(* lines 290-292: self.set(key, fresh_data, ttl); return fresh_data *)
GosSet(w) ==
    /\ gos[w].pc = "set"
    /\ must_evict(cache, gos[w].key) => CanCount
    /\ cache' = set_cache(cache, gos[w].key, gos[w].fresh, gos[w].ttl, now)
    /\ stats' = set_stats(stats, cache, gos[w].key)
    /\ gos' = [gos EXCEPT ![w] = Idle]
    /\ ev' = Event("get_or_set", gos[w].key, gos[w].fresh, gos[w].ttl, gos[w].fresh, "value")
    /\ scn' = ScnOff
    /\ UNCHANGED <<now, max_entries, refresh_functions, rf, bucketVars, windowVars,
                   serviceVars, retryVars, lockVars>>

(* line 295: self._stats['errors'] += 1, outside every lock: a read, then a write *)
GosErrLoad(w) ==
    /\ gos[w].pc = "err_load"
    /\ gos' = [gos EXCEPT ![w].pc = "err_store", ![w].tmp = stats.errors]
    /\ UNCHANGED <<now, max_entries, cache, stats, refresh_functions, rf, ev, scn,
                   bucketVars, windowVars,
                   serviceVars, retryVars, lockVars>>

(* lines 295-297: the write, then return None *)
GosErrStore(w) ==
    /\ gos[w].pc = "err_store"
    /\ stats' = [stats EXCEPT !.errors = gos[w].tmp + 1]
    /\ gos' = [gos EXCEPT ![w] = Idle]
    /\ ev' = Event("get_or_set", gos[w].key, None, gos[w].ttl, None, "raise")
    /\ scn' = ScnOff
    /\ UNCHANGED <<now, max_entries, cache, refresh_functions, rf, bucketVars, windowVars,
                   serviceVars, retryVars, lockVars>>

----------------------------------------------------------------------------
(* The background refresh thread, lines 231-264 *)

RfWait(t) == [pc |-> "wait", stale_keys |-> <<>>, fresh |-> None, tmp |-> 0, wake |-> t]

(* lines 244-247: the keys, in dict order, that are stale and have a function *)
RECURSIVE StaleKeys(_, _)
StaleKeys(c, t) ==
    IF c = <<>> THEN <<>>
    ELSE (IF is_stale(Head(c), t) /\ Head(c).key \in refresh_functions
          THEN <<Head(c).key>> ELSE <<>>) \o StaleKeys(Tail(c), t)

(* the for loop of line 250 moves on; after the last key, wait(30) again *)
RfAdvance == 
    IF Len(rf.stale_keys) > 1
    THEN [rf EXCEPT !.pc = "call", !.stale_keys = Tail(@), !.fresh = None]
    ELSE RfWait(now + refresh_interval)

(* line 233 wakes up with _stop_refresh not set, lines 241-247 take the         *)
(* snapshot under the lock                                                     *)
RefreshScan ==
    /\ rf.pc = "wait"
    /\ ~locks.stop_refresh
    /\ now >= rf.wake
    /\ rf' = IF StaleKeys(cache, now) = <<>> THEN RfWait(now + refresh_interval)
             ELSE [rf EXCEPT !.pc = "call", !.stale_keys = StaleKeys(cache, now)]
    /\ scn' = ScnOff
    /\ UNCHANGED <<now, max_entries, cache, stats, refresh_functions, gos, ev, bucketVars, windowVars,
                   serviceVars, retryVars, lockVars>>

(* lines 252-257: fresh_data = refresh_func(), outside every lock *)
RefreshCall(r) ==
    /\ rf.pc = "call"
    /\ CanCount
    /\ rf' = IF r = Raise THEN [rf EXCEPT !.pc = "err_load"]
             ELSE IF r = None THEN RfAdvance
             ELSE [rf EXCEPT !.pc = "set", !.fresh = r]
    /\ scn' = ScnOff
    /\ UNCHANGED <<now, max_entries, cache, stats, refresh_functions, gos, ev, bucketVars, windowVars,
                   serviceVars, retryVars, lockVars>>

(* line 258: self.set(key, fresh_data), ttl left out *)
RefreshSet ==
    /\ rf.pc = "set"
    /\ must_evict(cache, Head(rf.stale_keys)) => CanCount
    /\ cache' = set_cache(cache, Head(rf.stale_keys), rf.fresh, NoTtl, now)
    /\ stats' = set_stats(stats, cache, Head(rf.stale_keys))
    /\ rf' = [rf EXCEPT !.pc = "count"]
    /\ ev' = Event("refresh_set", Head(rf.stale_keys), rf.fresh, NoTtl, "True", "value")
    /\ scn' = ScnOff
    /\ UNCHANGED <<now, max_entries, refresh_functions, gos, bucketVars, windowVars,
                   serviceVars, retryVars, lockVars>>

(* line 259: self._stats['refreshes'] += 1; this thread is its only writer *)
RefreshCount ==
    /\ rf.pc = "count"
    /\ stats' = [stats EXCEPT !.refreshes = @ + 1]
    /\ rf' = RfAdvance
    /\ ev' = Event("refresh_done", Head(rf.stale_keys), rf.fresh, NoTtl, None, "value")
    /\ scn' = ScnOff
    /\ UNCHANGED <<now, max_entries, cache, refresh_functions, gos, bucketVars, windowVars,
                   serviceVars, retryVars, lockVars>>

(* line 263: self._stats['errors'] += 1, outside every lock: a read, then a write *)
RefreshErrLoad ==
    /\ rf.pc = "err_load"
    /\ rf' = [rf EXCEPT !.pc = "err_store", !.tmp = stats.errors]
    /\ UNCHANGED <<now, max_entries, cache, stats, refresh_functions, gos, ev, scn,
                   bucketVars, windowVars,
                   serviceVars, retryVars, lockVars>>

RefreshErrStore ==
    /\ rf.pc = "err_store"
    /\ stats' = [stats EXCEPT !.errors = rf.tmp + 1]
    /\ rf' = RfAdvance
    /\ ev' = Event("refresh_failed", Head(rf.stale_keys), None, NoTtl, None, "raise")
    /\ scn' = ScnOff
    /\ UNCHANGED <<now, max_entries, cache, refresh_functions, gos, bucketVars, windowVars,
                   serviceVars, retryVars, lockVars>>

(* set, lines 151-165, called for the key whose refresh function has returned  *)
(* (line 255) while the refresher has not yet written the result (line 258)    *)
SetDuringRefresh(d, ttl) ==
    /\ rf.pc = "set"
    /\ cache' = set_cache(cache, Head(rf.stale_keys), d, ttl, now)
    /\ stats' = set_stats(stats, cache, Head(rf.stale_keys))
    /\ must_evict(cache, Head(rf.stale_keys)) => CanCount
    /\ ev' = [Event("set", Head(rf.stale_keys), d, ttl, "True", "no")
                 EXCEPT !.log = "during_refresh"]
    /\ scn' = ScnOff
    /\ UNCHANGED <<now, max_entries, refresh_functions, gos, rf, bucketVars, windowVars,
                   serviceVars, retryVars, lockVars>>

(* time passes: n refresh intervals *)
TickCache(n) ==
    /\ now < MaxTicks * refresh_interval
    /\ now' = now + n * refresh_interval
    /\ UNCHANGED <<cacheVars, bucketVars, windowVars,
                   serviceVars, retryVars, lockVars>>

----------------------------------------------------------------------------
(* TokenBucket, rate_limiter.py lines 17-74.  refill_rate is the fraction      *)
(* num/den tokens per second; tokens is kept in units of 1/den token, so that  *)
(* elapsed * refill_rate is exact.                                             *)

Rates == {[num |-> 0, den |-> 1], [num |-> 1, den |-> 1],
          [num |-> 1, den |-> 2], [num |-> 2, den |-> 1]}

Min(a, b) == IF a <= b THEN a ELSE b

TokenBucket(capacity, refill_rate, t) ==
    [capacity |-> capacity, refill_rate |-> refill_rate,
     tokens |-> capacity * refill_rate.den, last_refill |-> t]

(* lines 51-52: the tokens after the refill step *)
refill_unclamped(b, t) == b.tokens + (t - b.last_refill) * b.refill_rate.num

refill(b, t) ==
    Min(b.capacity * b.refill_rate.den,
        b.tokens + (t - b.last_refill) * b.refill_rate.num)

(* lines 56-60 *)
consume_ok(b, n, t) == refill(b, t) >= n * b.refill_rate.den

consume_draining(b, n, t) ==
    IF consume_ok(b, n, t)
    THEN [b EXCEPT !.tokens = refill(b, t) - n * b.refill_rate.den, !.last_refill = t]
    ELSE [b EXCEPT !.tokens = 0, !.last_refill = t]

consume_keeping_last_refill(b, n, t) ==
    IF consume_ok(b, n, t)
    THEN [b EXCEPT !.tokens = refill(b, t) - n * b.refill_rate.den]
    ELSE [b EXCEPT !.tokens = refill(b, t)]

(* lines 47-60: the bucket after consume(n) *)
consume(b, n, t) ==
    IF consume_ok(b, n, t)
    THEN [b EXCEPT !.tokens = refill(b, t) - n * b.refill_rate.den, !.last_refill = t]
    ELSE [b EXCEPT !.tokens = refill(b, t), !.last_refill = t]

BucketRet(op, n, ok, tokens) == [op |-> op, n |-> n, ok |-> ok, tokens |-> tokens]

LogOff == [pure |-> FALSE, calls |-> <<>>]

Consume(n) ==
    /\ tb' = consume(tb, n, now)
    /\ tbRet' = BucketRet("consume", n, consume_ok(tb, n, now), 0)
    /\ tbLog' = IF tbLog.pure /\ n = 1 /\ Len(tbLog.calls) < MaxCapacity + 3
                THEN [tbLog EXCEPT !.calls = Append(@, [at |-> now, ok |-> consume_ok(tb, n, now)])]
                ELSE LogOff
    /\ UNCHANGED <<now, cacheVars, windowVars,
                   serviceVars, retryVars, lockVars>>

(* get_status, lines 62-74: reads, and writes nothing *)
BucketGetStatus ==
    /\ tbRet' = BucketRet("get_status", 0, TRUE, refill(tb, now))
    /\ tbLog' = LogOff
    /\ UNCHANGED <<now, tb, cacheVars, windowVars,
                   serviceVars, retryVars, lockVars>>

TickLimiter ==
    /\ now < MaxClock
    /\ now' = now + 1
    /\ UNCHANGED <<cacheVars, bucketVars, windowVars,
                   serviceVars, retryVars, lockVars>>

----------------------------------------------------------------------------
(* SlidingWindowLimiter, rate_limiter.py lines 77-131 *)

SlidingWindowLimiter(max_requests, window_seconds) ==
    [max_requests |-> max_requests, window_seconds |-> window_seconds, requests |-> <<>>]

(* lines 107-108: popleft while requests[0] <= now - window_seconds *)
RECURSIVE prune_lt(_, _, _)
prune_lt(q, w, t) ==
    IF q # <<>> /\ Head(q) < t - w THEN prune_lt(Tail(q), w, t) ELSE q

RECURSIVE prune(_, _, _)
prune(q, w, t) ==
    IF q # <<>> /\ Head(q) <= t - w THEN prune(Tail(q), w, t) ELSE q

(* line 111 *)
under_limit_le(l, t) == Len(prune(l.requests, l.window_seconds, t)) <= l.max_requests

under_limit(l, t) == Len(prune(l.requests, l.window_seconds, t)) < l.max_requests

(* lines 103-115: the limiter after is_allowed() *)
is_allowed_always_recording(l, t) ==
    [l EXCEPT !.requests = Append(prune(l.requests, l.window_seconds, t), t)]

is_allowed(l, t) ==
    [l EXCEPT !.requests = IF under_limit(l, t)
                           THEN Append(prune(l.requests, l.window_seconds, t), t)
                           ELSE prune(l.requests, l.window_seconds, t)]

IsAllowed ==
    /\ Len(swLog) < MaxCalls
    /\ sw' = is_allowed(sw, now)
    /\ swRet' = [op |-> "is_allowed", ok |-> under_limit(sw, now), n |-> 0]
    /\ swLog' = Append(swLog, [at |-> now, ok |-> under_limit(sw, now)])
    /\ UNCHANGED <<now, cacheVars, bucketVars,
                   serviceVars, retryVars, lockVars>>

(* get_status, lines 117-131: prunes too *)
WindowGetStatus ==
    /\ sw' = [sw EXCEPT !.requests = prune(sw.requests, sw.window_seconds, now)]
    /\ swRet' = [op |-> "get_status", ok |-> TRUE,
                 n |-> Len(prune(sw.requests, sw.window_seconds, now))]
    /\ UNCHANGED <<now, swLog, cacheVars, bucketVars,
                   serviceVars, retryVars, lockVars>>

----------------------------------------------------------------------------
(* RateLimiterService, rate_limiter.py lines 134-354.  is_allowed takes no     *)
(* service lock, so it is split at every point where another thread can run;   *)
(* the methods of a limiter run under that limiter's own lock.                 *)
(* global_limiter is <<>> for None and <<limiter>> once configured; limiters   *)
(* maps an endpoint to its 'config' and to inst, the limiter (an index of      *)
(* heap) of each client, the key f"{client_id}:{endpoint}".                    *)

Clients == {"10.0.0.1", "10.0.0.2"}
Endpoints == {"/api/metrics", "/health"}
Algorithms == {"sliding_window", "token_bucket"}

EmptyDict == [x \in {} |-> 0]

(* dict item assignment and del *)
DictSet(f, k, v) == [x \in DOMAIN f \cup {k} |-> IF x = k THEN v ELSE f[x]]

DictDel(f, k) == [x \in DOMAIN f \ {k} |-> f[x]]

(* defaultdict(int).__getitem__ *)
DictGet(f, k) == IF k \in DOMAIN f THEN f[k] ELSE 0

(* configure_endpoint_limit, lines 168-181: the 'config' entry *)
endpoint_config(max_requests, window_seconds, algorithm) ==
    IF algorithm = "token_bucket"
    THEN [type |-> "token_bucket", capacity |-> max_requests,
          refill_rate |-> [num |-> max_requests, den |-> window_seconds]]
    ELSE [type |-> "sliding_window", max_requests |-> max_requests,
          window_seconds |-> window_seconds]

(* lines 171 and 177: self.limiters[endpoint]['config'] = ..., instances are kept *)
configure_endpoint_limit(ls, e, n, w, alg) ==
    DictSet(ls, e, [config |-> endpoint_config(n, w, alg),
                    inst |-> IF e \in DOMAIN ls THEN ls[e].inst ELSE EmptyDict])

(* lines 246-255 *)
new_limiter(cfg, t) ==
    IF cfg.type = "token_bucket"
    THEN TokenBucket(cfg.capacity, cfg.refill_rate, t)
    ELSE SlidingWindowLimiter(cfg.max_requests, cfg.window_seconds)

IsBucket(o) == "tokens" \in DOMAIN o

reset_every_client(ls, c) ==
    [e \in DOMAIN ls |-> [ls[e] EXCEPT !.inst = EmptyDict]]

(* lines 349-352: del endpoint_data[limiter_key] for every endpoint *)
reset_client_limits(ls, c) ==
    [e \in DOMAIN ls |-> [ls[e] EXCEPT !.inst = DictDel(@, c)]]

(* get_status of a limiter: a sliding window prunes, a bucket writes nothing *)
after_get_status(o, t) ==
    IF IsBucket(o) THEN o ELSE [o EXCEPT !.requests = prune(@, o.window_seconds, t)]

(* epoch: how many limiters the service had created when the client's limits   *)
(* were last reset before the call began; -1 if they never were                *)
NoCall ==
    [pc |-> "idle", client |-> None, endpoint |-> None, cfg |-> [type |-> "none"],
     limiter |-> 0, tmp |-> 0, limit_type |-> "none", epoch |-> -1]

Decision(r, ok, limit_type, t) ==
    [client |-> r.client, endpoint |-> r.endpoint, ok |-> ok, limit_type |-> limit_type,
     at |-> t, limiter |-> r.limiter, epoch |-> r.epoch]

(* line 226: self.global_limiter and not self.global_limiter.is_allowed() *)
global_blocks(g, t) == g # <<>> /\ ~under_limit(g[1], t)

(* lines 226-238: where the call goes after the global check *)
after_global_fallthrough(blocked) == "ep_check"

after_global(blocked) == IF blocked THEN "blk_load" ELSE "ep_check"

(* configure_global_limit, line 193; limits are configured before the first request *)
ConfigureGlobalLimit(n, w) ==
    /\ svcLog.begun = 0
    /\ global_limiter' = <<SlidingWindowLimiter(n, w)>>
    /\ UNCHANGED <<now, limiters, heap, rstats, req, svcLog,
                   cacheVars, bucketVars, windowVars, retryVars, lockVars>>

(* configure_endpoint_limit, lines 167-181, under self.lock *)
ConfigureEndpointLimit(e, n, w, alg) ==
    /\ svcLog.begun = 0
    /\ limiters' = configure_endpoint_limit(limiters, e, n, w, alg)
    /\ UNCHANGED <<now, global_limiter, heap, rstats, req, svcLog,
                   cacheVars, bucketVars, windowVars, retryVars, lockVars>>

(* configure_endpoint_limit, lines 167-181, called again after requests have   *)
(* been served: the config is replaced, the instances stay                     *)
ReconfigureEndpointLimit(e, n, w, alg) ==
    /\ svcLog.begun > 0
    /\ e \in DOMAIN limiters
    /\ limiters[e].config # endpoint_config(n, w, alg)
    /\ limiters' = configure_endpoint_limit(limiters, e, n, w, alg)
    /\ UNCHANGED <<now, global_limiter, heap, rstats, req, svcLog,
                   cacheVars, bucketVars, windowVars, retryVars, lockVars>>

(* is_allowed, lines 220-223: client_id, self.stats['unique_ips'].add(client_id) *)
SvcBegin(w, c, e) ==
    /\ req[w].pc = "idle"
    /\ svcLog.begun < MaxDecisions
    /\ rstats' = [rstats EXCEPT !.unique_ips = @ \cup {c}]
    /\ req' = [req EXCEPT ![w] = [NoCall EXCEPT !.pc = "global", !.client = c, !.endpoint = e,
                                                !.epoch = svcLog.resetAt[c]]]
    /\ svcLog' = [svcLog EXCEPT !.begun = @ + 1]
    /\ UNCHANGED <<now, global_limiter, limiters, heap,
                   cacheVars, bucketVars, windowVars, retryVars, lockVars>>

(* line 226: the global limiter decides, under its own lock *)
SvcGlobal(w) ==
    /\ req[w].pc = "global"
    /\ global_limiter' = IF global_limiter = <<>> THEN <<>>
                         ELSE <<is_allowed(global_limiter[1], now)>>
    /\ req' = [req EXCEPT
                 ![w].pc = after_global(global_blocks(global_limiter, now)),
                 ![w].limit_type = IF global_blocks(global_limiter, now)
                                   THEN "global" ELSE "none"]
    /\ UNCHANGED <<now, limiters, heap, rstats, svcLog,
                   cacheVars, bucketVars, windowVars, retryVars, lockVars>>

(* lines 227 and 266: self.stats['requests_blocked'] += 1, the read *)
SvcBlockedLoad(w) ==
    /\ req[w].pc = "blk_load"
    /\ req' = [req EXCEPT ![w].pc = "blk_store", ![w].tmp = rstats.requests_blocked]
    /\ UNCHANGED <<now, global_limiter, limiters, heap, rstats, svcLog,
                   cacheVars, bucketVars, windowVars, retryVars, lockVars>>

(* the write *)
SvcBlockedStore(w) ==
    /\ req[w].pc = "blk_store"
    /\ rstats' = [rstats EXCEPT !.requests_blocked = req[w].tmp + 1]
    /\ req' = [req EXCEPT ![w].pc = "ip_load"]
    /\ UNCHANGED <<now, global_limiter, limiters, heap, svcLog,
                   cacheVars, bucketVars, windowVars, retryVars, lockVars>>

(* lines 228 and 267: self.stats['blocked_ips'][client_id] += 1, the read; *)
(* the defaultdict inserts 0 for a client it has not seen                  *)
SvcIpLoad(w) ==
    /\ req[w].pc = "ip_load"
    /\ rstats' = [rstats EXCEPT !.blocked_ips =
                     DictSet(@, req[w].client, DictGet(@, req[w].client))]
    /\ req' = [req EXCEPT ![w].pc = "ip_store",
                          ![w].tmp = DictGet(rstats.blocked_ips, req[w].client)]
    /\ UNCHANGED <<now, global_limiter, limiters, heap, svcLog,
                   cacheVars, bucketVars, windowVars, retryVars, lockVars>>

(* the write *)
SvcIpStore(w) ==
    /\ req[w].pc = "ip_store"
    /\ rstats' = [rstats EXCEPT !.blocked_ips = DictSet(@, req[w].client, req[w].tmp + 1)]
    /\ req' = [req EXCEPT ![w].pc = "blk_ret"]
    /\ UNCHANGED <<now, global_limiter, limiters, heap, svcLog,
                   cacheVars, bucketVars, windowVars, retryVars, lockVars>>

(* lines 232-236 and 271-276: get_status() of the limiter that blocked, return False *)
SvcBlockedReturn(w) ==
    /\ req[w].pc = "blk_ret"
    /\ IF req[w].limit_type = "global"
       THEN /\ global_limiter' = <<after_get_status(global_limiter[1], now)>>
            /\ heap' = heap
       ELSE /\ heap' = [heap EXCEPT ![req[w].limiter] = after_get_status(@, now)]
            /\ global_limiter' = global_limiter
    /\ svcLog' = [svcLog EXCEPT
                    !.calls = Append(@, Decision(req[w], FALSE, req[w].limit_type, now))]
    /\ req' = [req EXCEPT ![w] = NoCall]
    /\ UNCHANGED <<now, limiters, rstats,
                   cacheVars, bucketVars, windowVars, retryVars, lockVars>>

(* lines 239-245: endpoint in self.limiters, its config, limiter_key not in ... *)
SvcEndpointCheck(w) ==
    /\ req[w].pc = "ep_check"
    /\ req' = IF req[w].endpoint \notin DOMAIN limiters
              THEN [req EXCEPT ![w].pc = "allow_load"]
              ELSE [req EXCEPT
                      ![w].cfg = limiters[req[w].endpoint].config,
                      ![w].pc = IF req[w].client \in DOMAIN limiters[req[w].endpoint].inst
                                THEN "lookup" ELSE "create"]
    /\ UNCHANGED <<now, global_limiter, limiters, heap, rstats, svcLog,
                   cacheVars, bucketVars, windowVars, retryVars, lockVars>>

(* lines 246-255: a new limiter is built and stored under limiter_key *)
SvcCreate(w) ==
    /\ req[w].pc = "create"
    /\ heap' = Append(heap, new_limiter(req[w].cfg, now))
    /\ limiters' = [limiters EXCEPT
                      ![req[w].endpoint].inst = DictSet(@, req[w].client, Len(heap) + 1)]
    /\ req' = [req EXCEPT ![w].pc = "lookup"]
    /\ UNCHANGED <<now, global_limiter, rstats, svcLog,
                   cacheVars, bucketVars, windowVars, retryVars, lockVars>>

(* line 257: limiter = self.limiters[endpoint][limiter_key]; a KeyError when a *)
(* reset has deleted the key meanwhile                                         *)
SvcLookup(w) ==
    /\ req[w].pc = "lookup"
    /\ IF req[w].client \in DOMAIN limiters[req[w].endpoint].inst
       THEN /\ req' = [req EXCEPT ![w].pc = "decide",
                         ![w].limiter = limiters[req[w].endpoint].inst[req[w].client]]
            /\ svcLog' = svcLog
       ELSE /\ req' = [req EXCEPT ![w] = NoCall]
            /\ svcLog' = [svcLog EXCEPT
                            !.calls = Append(@, Decision(req[w], FALSE, "KeyError", now))]
    /\ UNCHANGED <<now, global_limiter, limiters, heap, rstats,
                   cacheVars, bucketVars, windowVars, retryVars, lockVars>>

(* lines 260-263: limiter.consume() or limiter.is_allowed(), by the config's type *)
limiter_allows(cfg, o, t) ==
    IF cfg.type = "token_bucket" THEN consume_ok(o, 1, t) ELSE under_limit(o, t)

limiter_after(cfg, o, t) ==
    IF cfg.type = "token_bucket" THEN consume(o, 1, t) ELSE is_allowed(o, t)

SvcDecide(w) ==
    /\ req[w].pc = "decide"
    /\ IF IsBucket(heap[req[w].limiter]) <=> req[w].cfg.type = "token_bucket"
       THEN /\ heap' = [heap EXCEPT ![req[w].limiter] = limiter_after(req[w].cfg, @, now)]
            /\ req' = IF limiter_allows(req[w].cfg, heap[req[w].limiter], now)
                      THEN [req EXCEPT ![w].pc = "allow_load"]
                      ELSE [req EXCEPT ![w].pc = "blk_load", ![w].limit_type = "endpoint"]
            /\ svcLog' = svcLog
       ELSE \* the object has no such method: AttributeError
            /\ heap' = heap
            /\ req' = [req EXCEPT ![w] = NoCall]
            /\ svcLog' = [svcLog EXCEPT
                            !.calls = Append(@, Decision(req[w], FALSE, "AttributeError", now))]
    /\ UNCHANGED <<now, global_limiter, limiters, rstats,
                   cacheVars, bucketVars, windowVars, retryVars, lockVars>>

(* line 279: self.stats['requests_allowed'] += 1, the read *)
SvcAllowedLoad(w) ==
    /\ req[w].pc = "allow_load"
    /\ req' = [req EXCEPT ![w].pc = "allow_store", ![w].tmp = rstats.requests_allowed]
    /\ UNCHANGED <<now, global_limiter, limiters, heap, rstats, svcLog,
                   cacheVars, bucketVars, windowVars, retryVars, lockVars>>

(* lines 279-286: the write, return True *)
SvcAllowedStore(w) ==
    /\ req[w].pc = "allow_store"
    /\ rstats' = [rstats EXCEPT !.requests_allowed = req[w].tmp + 1]
    /\ svcLog' = [svcLog EXCEPT !.calls = Append(@, Decision(req[w], TRUE, "none", now))]
    /\ req' = [req EXCEPT ![w] = NoCall]
    /\ UNCHANGED <<now, global_limiter, limiters, heap,
                   cacheVars, bucketVars, windowVars, retryVars, lockVars>>

(* reset_client_limits, lines 348-352, under self.lock; a call that finds no   *)
(* instance of the client changes nothing                                     *)
ResetClientLimits(c) ==
    /\ \E e \in DOMAIN limiters : c \in DOMAIN limiters[e].inst
    /\ limiters' = reset_client_limits(limiters, c)
    /\ svcLog' = [svcLog EXCEPT !.reset = TRUE, !.resetAt[c] = Len(heap)]
    /\ UNCHANGED <<now, global_limiter, heap, rstats, req,
                   cacheVars, bucketVars, windowVars, retryVars, lockVars>>

(* the state after RateLimiterService(), lines 142-152 *)
InitService ==
    /\ global_limiter = <<>>
    /\ limiters = EmptyDict
    /\ heap = <<>>
    /\ rstats = [requests_allowed |-> 0, requests_blocked |-> 0,
                 unique_ips |-> {}, blocked_ips |-> EmptyDict]
    /\ req = [w \in Workers |-> NoCall]
    /\ svcLog = [begun |-> 0, reset |-> FALSE, resetAt |-> [c \in Clients |-> -1],
                 calls |-> <<>>]

----------------------------------------------------------------------------
(* ErrorHandler.with_retry, error_handling.py lines 48-121: one call of the    *)
(* wrapper.  plan[i] is what the i-th invocation of the wrapped function does: *)
(* "return", or the type of the exception it raises.  An exception is the pair *)
(* of its type and the zero-based attempt that raised it.  Delays are kept in  *)
(* quarters of a second, so that the jitter factor is exact.                   *)

ExceptionTypes == {"ValueError", "UnicodeError", "ConnectionError"}
Outcomes == {"return"} \cup ExceptionTypes
ReraiseLists == {{}, {"ValueError"}}          \* reraise_exceptions; None is {}
FallbackValues == {None, "fallback", ""}      \* fallback_value
BaseDelays == {1, 2}
MaxDelays == {3, 5}
ExponentialBases == {2}

(* line 100: 0.5 + random.random() * 0.5, in quarters *)
JitterQuarters == {2, 3, 4}

RetryConfig(max_attempts, base_delay, max_delay, exponential_base, jitter) ==
    [max_attempts |-> max_attempts, base_delay |-> base_delay, max_delay |-> max_delay,
     exponential_base |-> exponential_base, jitter |-> jitter]

RetryConfigs ==
    {RetryConfig(m, b, d, x, j) : m \in 1..MaxAttempts, b \in BaseDelays, d \in MaxDelays,
                                  x \in ExponentialBases, j \in BOOLEAN}

RECURSIVE Pow(_, _)
Pow(b, n) == IF n = 0 THEN 1 ELSE b * Pow(b, n - 1)

NoException == [type |-> None, at |-> -1]

NoOutcome == [kind |-> "none", value |-> None, exc |-> NoException]

Returned(v) == [kind |-> "return", value |-> v, exc |-> NoException]

Raised(e) == [kind |-> "raise", value |-> None, exc |-> e]

(* the value the wrapped function returns at zero-based attempt a *)
ResultOf(a) == IF a = 0 THEN "result0" ELSE IF a = 1 THEN "result1" ELSE "result"

(* line 83: reraise_exceptions and type(e) in reraise_exceptions *)
reraises_never(e, reraise_exceptions) == FALSE

reraises_subclasses(e, reraise_exceptions) ==
    \/ e.type \in reraise_exceptions
    \/ e.type = "UnicodeError" /\ "ValueError" \in reraise_exceptions

reraises(e, reraise_exceptions) == e.type \in reraise_exceptions

(* line 88 *)
is_last_attempt_early(attempt, cfg) == attempt >= cfg.max_attempts - 2

is_last_attempt(attempt, cfg) == attempt = cfg.max_attempts - 1

(* lines 92-95, in seconds *)
backoff_unclamped(cfg, attempt) == cfg.base_delay * Pow(cfg.exponential_base, attempt)

backoff(cfg, attempt) ==
    Min(cfg.base_delay * Pow(cfg.exponential_base, attempt), cfg.max_delay)

(* lines 98-100, in quarters of a second; q is the jitter factor drawn *)
jittered(cfg, attempt, q) ==
    IF cfg.jitter THEN backoff(cfg, attempt) * q ELSE backoff(cfg, attempt) * 4

(* lines 114-118 *)
give_up_first(r) ==
    IF r.fallback_value # None THEN Returned(r.fallback_value)
    ELSE Raised([r.last_exception EXCEPT !.at = 0])

give_up_with_any_fallback(r) == Returned(r.fallback_value)

give_up(r) ==
    IF r.fallback_value # None THEN Returned(r.fallback_value)
    ELSE Raised(r.last_exception)

NoRetry ==
    [pc |-> "idle", cfg |-> RetryConfig(1, 1, 3, 2, FALSE), fallback_value |-> None,
     reraise_exceptions |-> {}, plan |-> <<"return">>, attempt |-> 0, calls |-> 0,
     delays |-> <<>>, last_exception |-> NoException, out |-> NoOutcome]

(* lines 67-75: the wrapper is called *)
RetryCall(cfg, fb, rr, plan) ==
    /\ retry.pc = "idle"
    /\ retry' = [NoRetry EXCEPT !.pc = "try", !.cfg = cfg, !.fallback_value = fb,
                                !.reraise_exceptions = rr, !.plan = plan]
    /\ UNCHANGED <<now, cacheVars, bucketVars, windowVars, serviceVars, lockVars>>

(* lines 76-89: the wrapped function is invoked and returns or raises *)
RetryAttempt ==
    /\ retry.pc = "try"
    /\ LET a == retry.attempt
           o == retry.plan[a + 1]
           e == [type |-> o, at |-> a]
       IN  retry' =
             IF o = "return"
             THEN [retry EXCEPT !.calls = @ + 1, !.pc = "done", !.out = Returned(ResultOf(a))]
             ELSE IF reraises(e, retry.reraise_exceptions)
             THEN [retry EXCEPT !.calls = @ + 1, !.pc = "done", !.last_exception = e,
                                !.out = Raised(e)]
             ELSE IF is_last_attempt(a, retry.cfg)
             THEN [retry EXCEPT !.calls = @ + 1, !.pc = "exhausted", !.last_exception = e]
             ELSE [retry EXCEPT !.calls = @ + 1, !.pc = "sleep", !.last_exception = e]
    /\ UNCHANGED <<now, cacheVars, bucketVars, windowVars, serviceVars, lockVars>>

(* lines 92-107: time.sleep(delay), then the next attempt *)
RetrySleep(q) ==
    /\ retry.pc = "sleep"
    /\ retry' = [retry EXCEPT !.delays = Append(@, jittered(retry.cfg, retry.attempt, q)),
                              !.attempt = @ + 1, !.pc = "try"]
    /\ UNCHANGED <<now, cacheVars, bucketVars, windowVars, serviceVars, lockVars>>

(* lines 110-118: all attempts failed *)
RetryGiveUp ==
    /\ retry.pc = "exhausted"
    /\ retry' = [retry EXCEPT !.pc = "done", !.out = give_up(retry)]
    /\ UNCHANGED <<now, cacheVars, bucketVars, windowVars, serviceVars, lockVars>>

InitRetry == retry = NoRetry

----------------------------------------------------------------------------
(* The locks.  locks.cache is the thread inside a `with self._lock:` block of  *)
(* MetricsCacheService, locks.limiter the thread inside a `with self.lock:`    *)
(* block of a limiter; th[t] is where thread t stands relative to those blocks *)
(* and to the callbacks and sleeps it runs.                                    *)

Refresher == "refresher"
Threads == Workers \cup {Refresher}

(* entering and leaving a `with lock:` block *)
acquire(ls, l, t) == [ls EXCEPT ![l] = t]

release_never(ls, l) == ls

release(ls, l) == [ls EXCEPT ![l] = None]

(* get, set, invalidate, clear: cache_service.py lines 112, 155, 197, 206 *)
CacheOpEnter(t) ==
    /\ t \in Workers /\ th[t] = "idle" /\ locks.cache = None
    /\ locks' = acquire(locks, "cache", t)
    /\ th' = [th EXCEPT ![t] = "in_cache_op"]
    /\ UNCHANGED <<now, cacheVars, bucketVars, windowVars, serviceVars, retryVars>>

CacheOpExit(t) ==
    /\ th[t] = "in_cache_op"
    /\ locks' = release(locks, "cache")
    /\ th' = [th EXCEPT ![t] = "idle"]
    /\ UNCHANGED <<now, cacheVars, bucketVars, windowVars, serviceVars, retryVars>>

(* consume, is_allowed, get_status of a limiter: rate_limiter.py lines 47, 64, 103, 119 *)
LimiterOpEnter(t) ==
    /\ t \in Workers /\ th[t] = "idle" /\ locks.limiter = None
    /\ locks' = acquire(locks, "limiter", t)
    /\ th' = [th EXCEPT ![t] = "in_limiter_op"]
    /\ UNCHANGED <<now, cacheVars, bucketVars, windowVars, serviceVars, retryVars>>

LimiterOpExit(t) ==
    /\ th[t] = "in_limiter_op"
    /\ locks' = release(locks, "limiter")
    /\ th' = [th EXCEPT ![t] = "idle"]
    /\ UNCHANGED <<now, cacheVars, bucketVars, windowVars, serviceVars, retryVars>>

(* get_or_set, line 280: self.get(key) enters the lock at line 112 *)
LockGosGetEnter(t) ==
    /\ t \in Workers /\ th[t] = "idle" /\ locks.cache = None
    /\ locks' = acquire(locks, "cache", t)
    /\ th' = [th EXCEPT ![t] = "gos_in_get"]
    /\ UNCHANGED <<now, cacheVars, bucketVars, windowVars, serviceVars, retryVars>>

(* get returns (lines 118, 125, 136): a hit returns, a miss goes on to line 287 *)
LockGosGetExit(t, hit) ==
    /\ th[t] = "gos_in_get"
    /\ locks' = release(locks, "cache")
    /\ th' = [th EXCEPT ![t] = IF hit THEN "idle" ELSE "fetch_func"]
    /\ UNCHANGED <<now, cacheVars, bucketVars, windowVars, serviceVars, retryVars>>

(* line 287: fetch_func() returns a value to store, or None or raises *)
LockGosFetchReturn(t, store) ==
    /\ th[t] = "fetch_func"
    /\ th' = [th EXCEPT ![t] = IF store THEN "gos_before_set" ELSE "idle"]
    /\ UNCHANGED <<now, locks, cacheVars, bucketVars, windowVars, serviceVars, retryVars>>

(* line 290: self.set(...) enters the lock at line 155 *)
LockGosSetEnter(t) ==
    /\ th[t] = "gos_before_set" /\ locks.cache = None
    /\ locks' = acquire(locks, "cache", t)
    /\ th' = [th EXCEPT ![t] = "gos_in_set"]
    /\ UNCHANGED <<now, cacheVars, bucketVars, windowVars, serviceVars, retryVars>>

LockGosSetExit(t) ==
    /\ th[t] = "gos_in_set"
    /\ locks' = release(locks, "cache")
    /\ th' = [th EXCEPT ![t] = "idle"]
    /\ UNCHANGED <<now, cacheVars, bucketVars, windowVars, serviceVars, retryVars>>

(* _refresh_stale_entries, line 244: the snapshot is taken inside the lock *)
LockScanEnter ==
    /\ th[Refresher] = "idle" /\ locks.cache = None
    /\ locks' = acquire(locks, "cache", Refresher)
    /\ th' = [th EXCEPT ![Refresher] = "rf_in_scan"]
    /\ UNCHANGED <<now, cacheVars, bucketVars, windowVars, serviceVars, retryVars>>

(* line 247 leaves the lock; line 250 takes the first stale key, if any *)
LockScanExit(stale) ==
    /\ th[Refresher] = "rf_in_scan"
    /\ locks' = release(locks, "cache")
    /\ th' = [th EXCEPT ![Refresher] = IF stale THEN "refresh_func" ELSE "idle"]
    /\ UNCHANGED <<now, cacheVars, bucketVars, windowVars, serviceVars, retryVars>>

(* line 255: refresh_func() returns a value to store, or None or raises *)
LockRefreshReturn(store) ==
    /\ th[Refresher] = "refresh_func"
    /\ th' = [th EXCEPT ![Refresher] = IF store THEN "rf_before_set" ELSE "idle"]
    /\ UNCHANGED <<now, locks, cacheVars, bucketVars, windowVars, serviceVars, retryVars>>

(* line 258: self.set(key, fresh_data) *)
LockRefreshSetEnter ==
    /\ th[Refresher] = "rf_before_set" /\ locks.cache = None
    /\ locks' = acquire(locks, "cache", Refresher)
    /\ th' = [th EXCEPT ![Refresher] = "rf_in_set"]
    /\ UNCHANGED <<now, cacheVars, bucketVars, windowVars, serviceVars, retryVars>>

LockRefreshSetExit ==
    /\ th[Refresher] = "rf_in_set"
    /\ locks' = release(locks, "cache")
    /\ th' = [th EXCEPT ![Refresher] = "idle"]
    /\ UNCHANGED <<now, cacheVars, bucketVars, windowVars, serviceVars, retryVars>>

(* with_retry, error_handling.py lines 75-107: an attempt fails, time.sleep(delay) *)
LockRetryFail(t) ==
    /\ t \in Workers /\ th[t] = "idle"
    /\ th' = [th EXCEPT ![t] = "retry_sleep"]
    /\ UNCHANGED <<now, locks, cacheVars, bucketVars, windowVars, serviceVars, retryVars>>

(* the sleep is over: the next attempt *)
LockRetryWake(t) ==
    /\ th[t] = "retry_sleep"
    /\ th' = [th EXCEPT ![t] = "idle"]
    /\ UNCHANGED <<now, locks, cacheVars, bucketVars, windowVars, serviceVars, retryVars>>

(* Blocking made explicit: a thread that has called an operation waits for the *)
(* lock of its next `with` block until it can take it.  locks.global is the    *)
(* lock of the global limiter, locks.limiter the lock of an endpoint limiter,  *)
(* locks.service RateLimiterService.lock; locks.depth counts how many times    *)
(* the owner of a lock has entered it.                                         *)
LockNames == {"cache", "limiter", "global", "service"}

never_reentrant(l) == FALSE

(* threading.RLock(): cache_service.py line 80, rate_limiter.py line 144;      *)
(* threading.Lock(): rate_limiter.py lines 35 and 94                           *)
reentrant(l) == l \in {"cache", "service"}

can_enter(ls, l, t) == ls[l] = None \/ (reentrant(l) /\ ls[l] = t)

enter(ls, l, t) == [ls EXCEPT ![l] = t, !.depth[l] = @ + 1]

leave(ls, l) ==
    IF ls.depth[l] > 1 THEN [ls EXCEPT !.depth[l] = @ - 1]
    ELSE [ls EXCEPT ![l] = None, !.depth[l] = 0]

(* the first `with` block of each operation: where its caller waits first *)
Entry ==
    [cache_op |-> "cache_wait",            \* get, set, invalidate, clear, get_stats
     get_cache_info |-> "info_wait",
     get_or_set |-> "gos_get_wait",
     is_allowed |-> "global_wait",
     reset_client_limits |-> "reset_wait",
     refresh |-> "rf_scan_wait"]

OpsOf(t) == IF t = Refresher THEN {"refresh"} ELSE DOMAIN Entry \ {"refresh"}

(* a thread waiting at a `with lock:` statement: the lock, and where it is     *)
(* once inside                                                                 *)
Waits ==
    [cache_wait |-> <<"cache", "in_cache_op">>,         \* lines 112, 155, 197, 206, 301
     info_wait |-> <<"cache", "info_in">>,              \* line 317
     info_stats_wait |-> <<"cache", "info_in_stats">>,  \* line 324 calls get_stats, line 301
     gos_get_wait |-> <<"cache", "gos_in_get">>,        \* line 280, get
     gos_set_wait |-> <<"cache", "gos_in_set">>,        \* line 290, set
     rf_scan_wait |-> <<"cache", "rf_in_scan">>,        \* line 244
     rf_set_wait |-> <<"cache", "rf_in_set">>,          \* line 258, set
     global_wait |-> <<"global", "in_global">>,         \* rate_limiter.py line 103
     limiter_wait |-> <<"limiter", "in_limiter_op">>,   \* rate_limiter.py lines 47, 103
     reset_wait |-> <<"service", "in_reset">>]          \* rate_limiter.py line 348

(* a thread at the end of a `with lock:` block: the lock it leaves, and where  *)
(* it may be afterwards                                                        *)
Leaves ==
    [in_cache_op |-> <<"cache", {"idle"}>>,
     info_in_stats |-> <<"cache", {"info_after_stats"}>>,   \* get_stats returns, line 313
     info_after_stats |-> <<"cache", {"idle"}>>,            \* line 326
     gos_in_get |-> <<"cache", {"idle", "fetch_func"}>>,    \* a hit returns, line 282
     gos_in_set |-> <<"cache", {"idle"}>>,
     in_global |-> <<"global", {"idle", "limiter_wait"}>>,  \* lines 226-235, 238-240
     in_limiter_op |-> <<"limiter", {"idle"}>>,
     in_reset |-> <<"service", {"idle"}>>]

(* a thread that goes on without taking or leaving a lock: get_cache_info      *)
(* calls get_stats inside its block, a callback returns                        *)
Runs ==
    [info_in |-> {"info_stats_wait"},                   \* line 324
     fetch_func |-> {"idle", "gos_set_wait"}]           \* lines 287-297

(* thread t calls an operation *)
LiveStart(t, op) ==
    /\ th[t] = "idle" /\ op \in OpsOf(t)
    /\ th' = [th EXCEPT ![t] = Entry[op]]
    /\ UNCHANGED <<now, locks, cacheVars, bucketVars, windowVars, serviceVars, retryVars>>

(* thread t enters the `with` block it waits at *)
LiveAcquire(t) ==
    /\ th[t] \in DOMAIN Waits
    /\ can_enter(locks, Waits[th[t]][1], t)
    /\ locks' = enter(locks, Waits[th[t]][1], t)
    /\ th' = [th EXCEPT ![t] = Waits[th[t]][2]]
    /\ UNCHANGED <<now, cacheVars, bucketVars, windowVars, serviceVars, retryVars>>

(* thread t leaves its `with` block *)
LiveRelease(t, s) ==
    /\ th[t] \in DOMAIN Leaves
    /\ s \in Leaves[th[t]][2]
    /\ locks' = leave(locks, Leaves[th[t]][1])
    /\ th' = [th EXCEPT ![t] = s]
    /\ UNCHANGED <<now, cacheVars, bucketVars, windowVars, serviceVars, retryVars>>

(* thread t goes on outside a lock statement *)
LiveRun(t, s) ==
    /\ th[t] \in DOMAIN Runs
    /\ s \in Runs[th[t]]
    /\ th' = [th EXCEPT ![t] = s]
    /\ UNCHANGED <<now, locks, cacheVars, bucketVars, windowVars, serviceVars, retryVars>>

(* the refresher after the key at the head of its snapshot: the next key of    *)
(* the loop of line 250, or the end of the cycle                               *)
after_key(ks) == IF Tail(ks) = <<>> THEN "idle" ELSE "refresh_func"

(* _refresh_stale_entries, lines 244-250: the snapshot ks is taken, the lock   *)
(* is left and the loop starts                                                 *)
LiveScanExit(ks) ==
    /\ th[Refresher] = "rf_in_scan"
    /\ locks' = leave(locks, "cache")
    /\ rf' = [rf EXCEPT !.stale_keys = ks]
    /\ th' = [th EXCEPT ![Refresher] = IF ks = <<>> THEN "idle" ELSE "refresh_func"]
    /\ UNCHANGED <<now, max_entries, cache, stats, refresh_functions, gos, ev, scn,
                   bucketVars, windowVars, serviceVars, retryVars>>

(* lines 255-263: refresh_func() returns a value to store, or it returns None  *)
(* or raises and the loop goes on                                              *)
LiveRefreshReturn(store) ==
    /\ th[Refresher] = "refresh_func"
    /\ rf' = IF store THEN rf ELSE [rf EXCEPT !.stale_keys = Tail(@)]
    /\ th' = [th EXCEPT ![Refresher] = IF store THEN "rf_set_wait"
                                       ELSE after_key(rf.stale_keys)]
    /\ UNCHANGED <<now, locks, max_entries, cache, stats, refresh_functions, gos, ev, scn,
                   bucketVars, windowVars, serviceVars, retryVars>>

(* line 258: self.set(key, fresh_data) returns, the loop goes on *)
LiveRefreshSetExit ==
    /\ th[Refresher] = "rf_in_set"
    /\ locks' = leave(locks, "cache")
    /\ rf' = [rf EXCEPT !.stale_keys = Tail(@)]
    /\ th' = [th EXCEPT ![Refresher] = after_key(rf.stale_keys)]
    /\ UNCHANGED <<now, max_entries, cache, stats, refresh_functions, gos, ev, scn,
                   bucketVars, windowVars, serviceVars, retryVars>>

LivePcs == {Waits[x][2] : x \in DOMAIN Waits} \cup DOMAIN Waits \cup DOMAIN Runs
               \cup {"info_after_stats", "refresh_func", "idle"}

(* stop, lines 328-340, called by thread t.  locks.stop_refresh is the Event    *)
(* _stop_refresh.  Line 333: self._stop_refresh.set()                          *)
StopSignal(t) ==
    /\ th[t] = "idle" /\ ~locks.stop_refresh
    /\ locks' = [locks EXCEPT !.stop_refresh = TRUE]
    /\ th' = [th EXCEPT ![t] = "stop_join"]
    /\ UNCHANGED <<now, cacheVars, bucketVars, windowVars, serviceVars, retryVars>>

(* lines 334-335: the refresher was waiting at line 233, the event ended its   *)
(* loop, and join returns (or the thread is not alive any more)                *)
StopJoin(t) ==
    /\ th[t] = "stop_join" /\ rf.pc = "wait"
    /\ th' = [th EXCEPT ![t] = "stop_clear"]
    /\ UNCHANGED <<now, locks, cacheVars, bucketVars, windowVars, serviceVars, retryVars>>

(* line 335: join(timeout=5) gives up while the refresher is still inside a    *)
(* cycle, in a refresh function that takes longer                              *)
StopJoinTimeout(t) ==
    /\ th[t] = "stop_join" /\ rf.pc # "wait"
    /\ now' = now + join_timeout
    /\ th' = [th EXCEPT ![t] = "stop_clear"]
    /\ UNCHANGED <<locks, cacheVars, bucketVars, windowVars, serviceVars, retryVars>>

(* line 338: self.clear(), and stop returns *)
StopClear(t) ==
    /\ th[t] = "stop_clear"
    /\ cache' = <<>>
    /\ ev' = Event("stop", None, None, NoTtl, None, "no")
    /\ scn' = ScnOff
    /\ th' = [th EXCEPT ![t] = "idle"]
    /\ UNCHANGED <<now, locks, max_entries, stats, refresh_functions, gos, rf,
                   bucketVars, windowVars, serviceVars, retryVars>>

InitLocks ==
    /\ locks = [cache |-> None, limiter |-> None, global |-> None, service |-> None,
                depth |-> [l \in LockNames |-> 0], stop_refresh |-> FALSE]
    /\ th = [t \in Threads |-> "idle"]

----------------------------------------------------------------------------
(* The state after MetricsCacheService(default_ttl, max_entries), lines 67-99 *)

InitCache(CS) ==
    /\ max_entries \in CS
    /\ cache = <<>>
    /\ stats = [hits |-> 0, misses |-> 0, evictions |-> 0, refreshes |-> 0, errors |-> 0]
    /\ refresh_functions = {}
    /\ gos = [w \in Workers |-> Idle]
    /\ rf = RfWait(refresh_interval)
    /\ ev = Event("init", None, None, NoTtl, None, "no")
    /\ scn = 0

(* the state after TokenBucket(capacity, refill_rate), lines 31-35 *)
InitBucket(CS, RS) ==
    /\ tb \in {TokenBucket(c, r, 0) : c \in CS, r \in RS}
    /\ tbRet = BucketRet("init", 0, TRUE, 0)
    /\ tbLog = [pure |-> TRUE, calls |-> <<>>]

(* the state after SlidingWindowLimiter(max_requests, window_seconds), lines 91-94 *)
InitWindow(NS, WS) ==
    /\ sw \in {SlidingWindowLimiter(n, w) : n \in NS, w \in WS}
    /\ swRet = [op |-> "init", ok |-> TRUE, n |-> 0]
    /\ swLog = <<>>

InitStore(CS) ==
    /\ now = 0
    /\ InitCache(CS)
    /\ InitBucket({0}, {[num |-> 0, den |-> 1]})
    /\ InitWindow({1}, {1})
    /\ InitService
    /\ InitRetry
    /\ InitLocks

Init == InitStore({1, 2})

(* get, set, invalidate and clear called with keys KS, values DS and ttls TS *)
StoreOps(KS, DS, TS) ==
    \/ \E k \in KS : Get(k)
    \/ \E k \in KS, d \in DS, ttl \in TS : Set(k, d, ttl)
    \/ \E k \in KS : Invalidate(k)
    \/ Clear

(* get_or_set called by the workers, the callback returning a value of RS *)
GosOps(WS, KS, TS, RS) ==
    \/ \E w \in WS, k \in KS, ttl \in TS : GosGet(w, k, ttl)
    \/ \E w \in WS, r \in RS : GosFetch(w, r)
    \/ \E w \in WS : GosSet(w)
    \/ \E w \in WS : GosErrLoad(w)
    \/ \E w \in WS : GosErrStore(w)

(* the refresh thread, the refresh functions returning a value of RS *)
RefreshOps(KS, RS) ==
    \/ \E k \in KS : RegisterRefreshFunction(k)
    \/ RefreshScan
    \/ \E r \in RS : RefreshCall(r)
    \/ RefreshSet
    \/ RefreshCount
    \/ RefreshErrLoad
    \/ RefreshErrStore

(* the store alone: three keys, one value, ttl left out *)
NextLru == StoreOps(Keys, {"v1"}, {NoTtl}) \/ TickCache(1)

SpecLru == Init /\ [][NextLru]_vars

(* the store alone: one key, every value and ttl *)
NextTtl == StoreOps({"A"}, Data \cup {None}, TtlArgs) \/ TickCache(1)

SpecTtl == Init /\ [][NextTtl]_vars

(* get_or_set by two workers next to set and get *)
NextGos ==
    \/ GosOps(Workers, {"A"}, {NoTtl, 0, 30}, {"v2", None, Raise})
    \/ StoreOps({"A"}, {"v1", None}, {NoTtl})
    \/ TickCache(1)

SpecGos == Init /\ [][NextGos]_vars

(* get_or_set alone: two workers, two keys, fetch functions of two values *)
NextFlight ==
    \/ GosOps(Workers, {"A", "B"}, {NoTtl}, {"v1", "v2", None, Raise})
    \/ TickCache(1)

SpecFlight == Init /\ [][NextFlight]_vars

(* the refresh thread next to get, set, invalidate and clear: two keys, ttls   *)
(* below and above stale_threshold, refresh functions that return a value,     *)
(* return None or raise                                                        *)
NextRefresh ==
    \/ \E k \in {"A", "B"} : Get(k)
    \/ \E k \in {"A", "B"}, ttl \in {30, 90} : Set(k, "v1", ttl)
    \/ Invalidate("A")
    \/ RefreshOps({"A", "B"}, {"v2", None, Raise})
    \/ TickCache(3)

SpecRefresh == Init /\ [][NextRefresh]_vars

(* entries with a ttl below, at and above stale_threshold, seen by the refresh *)
(* thread every refresh_interval                                               *)
(* get and set whose debug messages may fail to be emitted *)
NextLogs ==
    \/ \E k \in {"A", "B"} : Get(k)
    \/ \E k \in {"A", "B"}, ttl \in {NoTtl, 30} : Set(k, "v1", ttl)
    \/ \E k \in {"A", "B"} : GetLogRaises(k)
    \/ \E k \in {"A", "B"}, ttl \in {NoTtl, 30} : SetLogRaises(k, "v1", ttl)
    \/ TickCache(1)
SpecLogs == InitStore({1}) /\ [][NextLogs]_vars

(* a refresh cycle next to foreground sets, some made between the return of a  *)
(* refresh function and the write of its result                                *)
NextNewer ==
    \/ \E k \in {"A", "B"} : Get(k)
    \/ \E k \in {"A", "B"}, ttl \in {NoTtl, 90} : Set(k, "v1", ttl)
    \/ \E ttl \in {NoTtl, 90} : SetDuringRefresh("v1", ttl)
    \/ RefreshOps({"A", "B"}, {"v2", Raise})
    \/ TickCache(3)
SpecNewer == InitStore({2}) /\ [][NextNewer]_vars

(* stop called once, by one thread, next to the refresher and foreground sets *)
NextStop ==
    \/ \E k \in {"A", "B"} : Get(k)
    \/ \E k \in {"A", "B"} : Set(k, "v1", 90)
    \/ RefreshOps({"A", "B"}, {"v2", Raise})
    \/ TickCache(3)
    \/ StopSignal("w1")
    \/ StopJoin("w1")
    \/ StopJoinTimeout("w1")
    \/ StopClear("w1")
SpecStop == InitStore({2}) /\ [][NextStop]_vars

NextStale ==
    \/ Get("A")
    \/ \E k \in {"A", "B"}, ttl \in {30, 60, 90} : Set(k, "v1", ttl)
    \/ Invalidate("A")
    \/ Clear
    \/ RefreshOps({"A"}, {"v2", Raise})
    \/ TickCache(1)

SpecStale == InitStore({1}) /\ [][NextStale]_vars

(* every writer of the counters: get, set, clear, a get_or_set whose           *)
(* fetch_func may raise and the refresh thread with two keys to refresh        *)
NextCounters ==
    \/ \E k \in {"A", "B"} : Get(k)
    \/ \E k \in {"A", "B"} : Set(k, "v1", NoTtl)
    \/ Clear
    \/ GosOps({"w1"}, {"A"}, {NoTtl}, {"v1", Raise})
    \/ RefreshOps({"A", "B"}, {"v1", Raise})
    \/ TickCache(3)

SpecCounters == InitStore({2}) /\ [][NextCounters]_vars

(* every operation and the refresh thread interleaved *)
Next ==
    \/ StoreOps({"A", "B"}, {"v1"}, {NoTtl})
    \/ GosOps({"w1"}, {"A", "B"}, {NoTtl}, {"v1", Raise})
    \/ RefreshOps({"A", "B"}, {"v1", Raise})
    \/ TickCache(3)

Spec == InitStore({1}) /\ [][Next]_vars

(* one token bucket *)
InitTb ==
    /\ now = 0
    /\ InitCache({1})
    /\ InitBucket(0..MaxCapacity, Rates)
    /\ InitWindow({1}, {1})
    /\ InitService
    /\ InitRetry
    /\ InitLocks

NextBucket ==
    \/ \E n \in 0..(tb.capacity + 1) : Consume(n)
    \/ BucketGetStatus
    \/ TickLimiter

SpecBucket == InitTb /\ [][NextBucket]_vars

(* one sliding window *)
InitSw ==
    /\ now = 0
    /\ InitCache({1})
    /\ InitBucket({0}, {[num |-> 0, den |-> 1]})
    /\ InitWindow(1..MaxRequests, 1..MaxWindow)
    /\ InitService
    /\ InitRetry
    /\ InitLocks

NextWindow ==
    \/ IsAllowed
    \/ WindowGetStatus
    \/ TickLimiter

SpecWindow == InitSw /\ [][NextWindow]_vars

(* the rate limiter service: limits are configured, then the workers call     *)
(* is_allowed for clients CS on endpoints ES while clients are reset          *)
ServiceOps(WS, CS, ES) ==
    \/ \E w \in WS, c \in CS, e \in ES : SvcBegin(w, c, e)
    \/ \E w \in WS : SvcGlobal(w)
    \/ \E w \in WS : SvcBlockedLoad(w)
    \/ \E w \in WS : SvcBlockedStore(w)
    \/ \E w \in WS : SvcIpLoad(w)
    \/ \E w \in WS : SvcIpStore(w)
    \/ \E w \in WS : SvcBlockedReturn(w)
    \/ \E w \in WS : SvcEndpointCheck(w)
    \/ \E w \in WS : SvcCreate(w)
    \/ \E w \in WS : SvcLookup(w)
    \/ \E w \in WS : SvcDecide(w)
    \/ \E w \in WS : SvcAllowedLoad(w)
    \/ \E w \in WS : SvcAllowedStore(w)
    \/ \E c \in CS : ResetClientLimits(c)

NextService ==
    \/ \E n \in 1..2 : ConfigureGlobalLimit(n, 2)
    \/ \E alg \in Algorithms : ConfigureEndpointLimit("/api/metrics", 1, 2, alg)
    \/ ServiceOps(Workers, Clients, Endpoints)

SpecService == InitStore({1}) /\ [][NextService]_vars

(* one endpoint whose algorithm is changed while requests are served *)
NextReconfigure ==
    \/ \E alg \in Algorithms : ConfigureEndpointLimit("/api/metrics", 1, 2, alg)
    \/ \E alg \in Algorithms : ReconfigureEndpointLimit("/api/metrics", 1, 2, alg)
    \/ ServiceOps(Workers, Clients, {"/api/metrics"})

SpecReconfigure == InitStore({1}) /\ [][NextReconfigure]_vars

(* one call of a function wrapped by with_retry *)
NextRetry ==
    \/ /\ retry.pc = "idle"
       /\ \E cfg \in RetryConfigs, fb \in FallbackValues, rr \in ReraiseLists :
             \E plan \in [1..cfg.max_attempts -> Outcomes] : RetryCall(cfg, fb, rr, plan)
    \/ RetryAttempt
    \/ \E q \in JitterQuarters : RetrySleep(q)
    \/ RetryGiveUp

SpecRetry == InitStore({1}) /\ [][NextRetry]_vars

(* the threads and the locks *)
NextLocks ==
    \/ \E t \in Workers : CacheOpEnter(t) \/ CacheOpExit(t)
    \/ \E t \in Workers : LimiterOpEnter(t) \/ LimiterOpExit(t)
    \/ \E t \in Workers : LockGosGetEnter(t)
    \/ \E t \in Workers, hit \in BOOLEAN : LockGosGetExit(t, hit)
    \/ \E t \in Workers, store \in BOOLEAN : LockGosFetchReturn(t, store)
    \/ \E t \in Workers : LockGosSetEnter(t) \/ LockGosSetExit(t)
    \/ LockScanEnter
    \/ \E stale \in BOOLEAN : LockScanExit(stale)
    \/ \E store \in BOOLEAN : LockRefreshReturn(store)
    \/ LockRefreshSetEnter
    \/ LockRefreshSetExit
    \/ \E t \in Workers : LockRetryFail(t) \/ LockRetryWake(t)

SpecLocks == InitStore({1}) /\ [][NextLocks]_vars

(* the threads with their waiting made explicit *)
NextLive ==
    \/ \E t \in Threads, op \in DOMAIN Entry : LiveStart(t, op)
    \/ \E t \in Threads : LiveAcquire(t)
    \/ \E t \in Threads, s \in LivePcs : LiveRelease(t, s)
    \/ \E t \in Threads, s \in LivePcs : LiveRun(t, s)
    \/ \E ks \in {<<>>, <<"A">>, <<"A", "B">>} : LiveScanExit(ks)
    \/ \E store \in BOOLEAN : LiveRefreshReturn(store)
    \/ LiveRefreshSetExit

(* Fair scheduling: a thread that can leave a block or go on does so, and the  *)
(* callbacks return; a thread waiting for a lock that is free again and again  *)
(* gets it.                                                                    *)
FairLive ==
    /\ \A t \in Threads :
          /\ SF_vars(LiveAcquire(t))
          /\ WF_vars(\E s \in LivePcs : LiveRelease(t, s))
          /\ WF_vars(\E s \in LivePcs : LiveRun(t, s))
    /\ WF_vars(\E ks \in {<<>>, <<"A">>, <<"A", "B">>} : LiveScanExit(ks))
    /\ WF_vars(\E store \in BOOLEAN : LiveRefreshReturn(store))
    /\ WF_vars(LiveRefreshSetExit)

SpecLive == InitStore({1}) /\ [][NextLive]_vars /\ FairLive

----------------------------------------------------------------------------
(* Claims about the cache store *)

Range(f) == {f[i] : i \in DOMAIN f}

EntryOf(c, k) == c[IndexOf(c, k)]

(* the ttl a caller asked for: the argument, or default_ttl when it is left out *)
GivenTtl(ttl) == IF ttl = NoTtl THEN default_ttl ELSE ttl

(* C1: capacity bound.  In every state reached by any interleaving of get, set, *)
(* get_or_set, invalidate, clear and refresh cycles, the store holds at most    *)
(* max_entries entries (set runs under the lock, so no state is inside a set).  *)
C1_CapacityBound == Len(cache) <= max_entries

(* a refresh cycle has just written its key into a full store by evicting *)
C1_Witness ==
    /\ ev.op = "refresh_set"
    /\ stats.evictions >= 1
    /\ Len(cache) = max_entries

(* C2: LRU victim.  A set of a key that is not in a full store removes exactly  *)
(* one entry before inserting: the one with the smallest last_accessed, and on  *)
(* a tie the one that comes first in the dict's insertion order; evictions      *)
(* grows by one.  A set of a present key, or into a store that is not full,     *)
(* removes nothing and leaves evictions alone.  With capacity 2, set A, set B,  *)
(* set C evicts A; then get A is absent and get B and get C hit.                *)
LruVictimStep(k) ==
    IF k \notin KeysOf(cache) /\ Len(cache) >= max_entries
    THEN \E i \in 1..Len(cache) :
            /\ \A j \in 1..Len(cache) :
                  \/ cache[i].last_accessed < cache[j].last_accessed
                  \/ cache[i].last_accessed = cache[j].last_accessed /\ i <= j
            /\ KeysOf(cache') = (KeysOf(cache) \ {cache[i].key}) \cup {k}
            /\ Len(cache') = Len(cache)
            /\ \A j \in 1..Len(cache) : j # i => cache[j] \in Range(cache')
            /\ stats'.evictions = stats.evictions + 1
    ELSE /\ KeysOf(cache') = KeysOf(cache) \cup {k}
         /\ Len(cache') = Cardinality(KeysOf(cache) \cup {k})
         /\ \A j \in 1..Len(cache) : cache[j].key # k => cache[j] \in Range(cache')
         /\ stats'.evictions = stats.evictions

ScenarioOk ==
    max_entries = 2 =>
        /\ scn = 3 => KeysOf(cache) = {"B", "C"} /\ stats.evictions = 1
        /\ scn = 4 => ev.res = None /\ ev.log = "miss"
        /\ scn = 5 => ev.res # None /\ ev.log = "hit" /\ ev.key = "B"
        /\ scn = 6 => ev.res # None /\ ev.log = "hit" /\ ev.key = "C"

C2_LruVictim ==
    [][/\ (ev'.op = "set" /\ Set(ev'.key, ev'.data, ev'.ttl)) => LruVictimStep(ev'.key)
       /\ ScenarioOk']_vars

(* the scenario was run to its end on a store of capacity 2 *)
C2_Witness == max_entries = 2 /\ scn = 6 /\ stats.evictions = 1 /\ stats.hits = 2

(* C3: round trip.  A get(key) that follows set(key, v, ttl), v not None, with  *)
(* no other operation in between and at most ttl seconds later, returns v; it   *)
(* adds one to the entry's access_count, sets its last_accessed and adds one to *)
(* hits, and changes nothing else: not data, created_at or ttl_seconds.         *)
RoundTripStep(k) ==
    /\ ev'.res = ev.data
    /\ Len(cache') = Len(cache)
    /\ \A i \in 1..Len(cache) :
          IF cache[i].key = k
          THEN /\ cache'[i].key = k
               /\ cache'[i].data = ev.data
               /\ cache'[i].created_at = cache[i].created_at
               /\ cache'[i].ttl_seconds = cache[i].ttl_seconds
               /\ cache'[i].access_count = cache[i].access_count + 1
               /\ cache'[i].last_accessed = now
          ELSE cache'[i] = cache[i]
    /\ stats' = [stats EXCEPT !.hits = @ + 1]

C3_RoundTrip ==
    [][( /\ ev.op = "set" /\ ev.data # None
         /\ Get(ev.key)
         /\ ev.key \in KeysOf(cache)
         /\ now - EntryOf(cache, ev.key).created_at <= GivenTtl(ev.ttl) )
       => RoundTripStep(ev.key)]_vars

(* v2 was set with ttl 30 and read back exactly 30 seconds later *)
C3_Witness ==
    /\ ev.op = "get" /\ ev.res = "v2" /\ ev.key \in KeysOf(cache)
    /\ EntryOf(cache, ev.key).ttl_seconds = 30
    /\ EntryOf(cache, ev.key).access_count = 1
    /\ now - EntryOf(cache, ev.key).created_at = 30

(* C4: lazy expiry.  A get(key) on an entry older than its ttl_seconds returns  *)
(* None, deletes the entry and adds one to misses, not to hits; on an entry of  *)
(* age at most ttl_seconds it returns the entry's data and adds one to hits.    *)
C4_LazyExpiry ==
    [][\A k \in Keys :
          (Get(k) /\ k \in KeysOf(cache)) =>
              IF now - EntryOf(cache, k).created_at > EntryOf(cache, k).ttl_seconds
              THEN /\ ev'.res = None
                   /\ k \notin KeysOf(cache')
                   /\ stats'.misses = stats.misses + 1
                   /\ stats'.hits = stats.hits
              ELSE /\ ev'.res = EntryOf(cache, k).data
                   /\ k \in KeysOf(cache')
                   /\ stats'.hits = stats.hits + 1
                   /\ stats'.misses = stats.misses]_vars

(* a get has just found its entry expired and removed it *)
C4_Witness ==
    /\ ev.op = "get" /\ ev.log = "expired" /\ ev.res = None
    /\ ev.key \notin KeysOf(cache)
    /\ stats.misses >= 1

(* C5: get_or_set error propagation.  When get_or_set misses and fetch_func     *)
(* raises, the error reaches the caller of get_or_set, errors grows by one and  *)
(* no entry is stored.                                                          *)
C5_ErrorPropagated ==
    [][\A w \in Workers :
          GosErrStore(w) =>
              /\ ev'.exc
              /\ stats'.errors = stats.errors + 1
              /\ cache' = cache]_vars

(* C6: get_or_set read-through.  On a hit (key present and not expired) it      *)
(* returns the cached value without calling fetch_func; on a miss it calls      *)
(* fetch_func once, stores the result under the key with the given ttl if and   *)
(* only if the result is not None, and returns the result.                      *)
C6_ReadThrough ==
    [][/\ \A w \in Workers, k \in Keys, ttl \in TtlArgs :
             ( /\ GosGet(w, k, ttl)
               /\ k \in KeysOf(cache)
               /\ now - EntryOf(cache, k).created_at <= EntryOf(cache, k).ttl_seconds )
             => /\ ev'.op = "get_or_set"
                /\ ev'.res = EntryOf(cache, k).data
                /\ ev'.fetch = "no"
                /\ gos'[w].pc = "idle"
       /\ \A w \in Workers :
             GosSet(w) =>
                /\ gos[w].key \in KeysOf(cache')
                /\ EntryOf(cache', gos[w].key).data = gos[w].fresh
                /\ EntryOf(cache', gos[w].key).ttl_seconds = GivenTtl(gos[w].ttl)
                /\ ev'.res = gos[w].fresh
       /\ \A w \in Workers :
             GosFetch(w, None) => cache' = cache /\ ev'.res = None]_vars

----------------------------------------------------------------------------
(* Claims about the token bucket *)

(* C7: bounds.  With capacity >= 0, refill rate >= 0, a clock that never goes   *)
(* back and amounts >= 0, 0 <= tokens <= capacity in every state reached by     *)
(* consume and get_status calls, also for the tokens get_status reports.        *)
C7_TokenBounds ==
    /\ 0 <= tb.tokens
    /\ tb.tokens <= tb.capacity * tb.refill_rate.den
    /\ tbRet.op = "get_status" =>
          0 <= tbRet.tokens /\ tbRet.tokens <= tb.capacity * tb.refill_rate.den

(* a bucket of capacity 1 and rate 2/s was emptied at time 0 and called again   *)
(* at time 2: the refill step had 4 tokens to add and the bucket took 1         *)
C7_Witness ==
    /\ tb.capacity = 1 /\ tb.refill_rate = [num |-> 2, den |-> 1]
    /\ tbLog.pure /\ Len(tbLog.calls) = 2
    /\ tbLog.calls[1].at = 0 /\ tbLog.calls[2].at = 2 /\ tbLog.calls[2].ok
    /\ tb.tokens = 0

(* C8: no partial consumption.  A consume(n) that finds fewer than n tokens     *)
(* after the refill step returns False and leaves the refilled tokens as they   *)
(* are; consume(capacity + 1) on a full bucket returns False and leaves         *)
(* capacity tokens; a consume(n) that returns True takes exactly n tokens.      *)
C8_NoPartialConsume ==
    [][\A n \in 0..(MaxCapacity + 1) :
          Consume(n) =>
              LET unit == tb.refill_rate.den
                  refilled == Min(tb.capacity * unit,
                                  tb.tokens + (now - tb.last_refill) * tb.refill_rate.num)
              IN  /\ refilled < n * unit => ~tbRet'.ok /\ tb'.tokens = refilled
                  /\ refilled >= n * unit => tbRet'.ok
                  /\ tbRet'.ok => tb'.tokens = refilled - n * unit
                  /\ (tb.tokens = tb.capacity * unit /\ n = tb.capacity + 1)
                        => ~tbRet'.ok /\ tb'.tokens = tb.capacity * unit]_vars

(* consume(capacity + 1) has just failed on a full bucket *)
C8_Witness ==
    /\ tb.capacity >= 1
    /\ tbRet.op = "consume" /\ tbRet.n = tb.capacity + 1 /\ ~tbRet.ok
    /\ tb.tokens = tb.capacity * tb.refill_rate.den

(* C9: burst and refill.  On a new (full) bucket of capacity C >= 1 and rate    *)
(* r > 0, of the consume(1) calls made before any time passes the first C       *)
(* return True and every later one False; when the next consume(1) comes        *)
(* exactly 1/r seconds later it returns True, and one right after it False.     *)
(* (1/r is a whole number of seconds for the rates 1 and 1/2.)                  *)
C9_BurstRefill ==
    (tbLog.pure /\ tb.capacity >= 1 /\ tb.refill_rate.num > 0) =>
        LET h == tbLog.calls
            C == tb.capacity
        IN  /\ \A i \in 1..Len(h) : h[i].at = 0 => (h[i].ok <=> i <= C)
            /\ tb.refill_rate.den % tb.refill_rate.num = 0 =>
                  \A i \in 2..Len(h) :
                      ( /\ i >= C + 2
                        /\ h[i - 1].at = 0
                        /\ h[i].at = tb.refill_rate.den \div tb.refill_rate.num )
                      => /\ h[i].ok
                         /\ (i < Len(h) /\ h[i + 1].at = h[i].at) => ~h[i + 1].ok

(* capacity 5, rate 1 per second: five hits, a miss, one second, a hit, a miss *)
C9_Witness ==
    /\ tb.capacity = 5 /\ tb.refill_rate = [num |-> 1, den |-> 1]
    /\ tbLog.pure /\ Len(tbLog.calls) = 8
    /\ tbLog.calls[6].at = 0 /\ ~tbLog.calls[6].ok
    /\ tbLog.calls[7].at = 1 /\ tbLog.calls[7].ok
    /\ tbLog.calls[8].at = 1 /\ ~tbLog.calls[8].ok

----------------------------------------------------------------------------
(* Claims about the sliding window *)

Admitted(h, a, b) == {j \in 1..Len(h) : h[j].ok /\ a <= h[j].at /\ h[j].at < b}

(* C10: admission.  With max_requests = N >= 1: of the calls made less than     *)
(* window_seconds after a call that found the counter empty, that call          *)
(* included, exactly the first N return True; a call made window_seconds or     *)
(* more after every admitted call returns True; and no interval                 *)
(* [t, t + window_seconds) holds more than N admitted calls.                    *)
C10_WindowAdmission ==
    LET h == swLog
        N == sw.max_requests
        W == sw.window_seconds
        Empty(i) == \A j \in 1..(i - 1) : h[j].ok => h[j].at + W <= h[i].at
    IN  /\ \A i \in 1..Len(h) : \A m \in i..Len(h) :
              (Empty(i) /\ h[m].at < h[i].at + W) => (h[m].ok <=> m - i + 1 <= N)
        /\ \A i \in 1..Len(h) : Empty(i) => h[i].ok
        /\ \A i \in 1..Len(h) : Cardinality(Admitted(h, h[i].at, h[i].at + W)) <= N

(* N calls were admitted, the next was blocked, and a call one window later was admitted *)
C10_Witness ==
    /\ sw.max_requests = 2 /\ sw.window_seconds = 2
    /\ Len(swLog) >= 4
    /\ swLog[1].ok /\ swLog[2].ok /\ ~swLog[3].ok /\ swLog[3].at < swLog[1].at + 2
    /\ swLog[4].ok /\ swLog[4].at = swLog[1].at + 2 /\ swLog[2].at = swLog[1].at

(* C11: state of the window.  Right after every is_allowed() decision, admit    *)
(* or block, every stored timestamp t has now - t <= window_seconds, the        *)
(* timestamps are in non-decreasing order and there are at most max_requests    *)
(* of them; a blocked call appends nothing: what is left is a tail of the old   *)
(* queue.                                                                       *)
C11_WindowState ==
    [][IsAllowed =>
          LET q == sw'.requests
              old == sw.requests
          IN  /\ \A i \in 1..Len(q) : now - q[i] <= sw.window_seconds
              /\ \A i \in 1..(Len(q) - 1) : q[i] <= q[i + 1]
              /\ Len(q) <= sw.max_requests
              /\ ~swRet'.ok =>
                    \E d \in 0..Len(old) : q = SubSeq(old, d + 1, Len(old))]_vars

(* a call was blocked on a full window after an older timestamp had been dropped *)
C11_Witness ==
    /\ swRet.op = "is_allowed" /\ ~swRet.ok
    /\ Len(sw.requests) = sw.max_requests
    /\ sw.max_requests = 2
    /\ Len(swLog) >= 4
    /\ swLog[1].ok /\ swLog[1].at + sw.window_seconds <= sw.requests[1]

----------------------------------------------------------------------------
(* Claims about the rate limiter service *)

BlockedPath == {"blk_load", "blk_store", "ip_load", "ip_store", "blk_ret"}

(* C12: global short-circuit.  When a global limiter is configured and blocks  *)
(* a call of is_allowed, the call goes down the blocked path only: it never    *)
(* reaches the endpoint check, no step of it creates a limiter instance or     *)
(* changes a per-endpoint limiter, and it returns False with limit type        *)
(* 'global'.                                                                   *)
C12_GlobalShortCircuit ==
    [][\A w \in Workers :
          /\ (SvcGlobal(w) /\ global_blocks(global_limiter, now))
                => req'[w].limit_type = "global" /\ req'[w].pc \in BlockedPath
          /\ (req[w].limit_type = "global" /\ req'[w] # req[w])
                => /\ limiters' = limiters
                   /\ heap' = heap
                   /\ req'[w].pc \in BlockedPath \cup {"idle"}
                   /\ req'[w].pc = "idle" =>
                         LET d == svcLog'.calls[Len(svcLog'.calls)]
                         IN  /\ Len(svcLog'.calls) = Len(svcLog.calls) + 1
                             /\ ~d.ok /\ d.limit_type = "global"
                             /\ d.client = req[w].client]_vars

(* one client was admitted and got its limiter; the next call, by another      *)
(* client on the same configured endpoint, was blocked globally and has none   *)
C12_Witness ==
    /\ Len(svcLog.calls) = 2
    /\ svcLog.calls[1].ok /\ svcLog.calls[1].limiter = 1
    /\ svcLog.calls[2].limit_type = "global"
    /\ svcLog.calls[2].client # svcLog.calls[1].client
    /\ svcLog.calls[2].endpoint = svcLog.calls[1].endpoint
    /\ svcLog.calls[2].client \notin DOMAIN limiters[svcLog.calls[2].endpoint].inst
    /\ Len(heap) = 1

RECURSIVE SumOver(_, _)
SumOver(f, S) ==
    IF S = {} THEN 0
    ELSE LET x == CHOOSE y \in S : TRUE IN f[x] + SumOver(f, S \ {x})

Decided == {i \in 1..Len(svcLog.calls) :
               svcLog.calls[i].limit_type \in {"none", "global", "endpoint"}}

(* C17: no lost updates in the statistics.  Whenever no is_allowed call is in  *)
(* progress, requests_allowed + requests_blocked is the number of decisions    *)
(* returned, the per-client block tallies add up to requests_blocked, and      *)
(* unique_ips holds the client of every decision returned.                     *)
C17_NoLostUpdates ==
    (\A w \in Workers : req[w].pc = "idle") =>
        /\ rstats.requests_allowed + rstats.requests_blocked = Cardinality(Decided)
        /\ SumOver(rstats.blocked_ips, DOMAIN rstats.blocked_ips) = rstats.requests_blocked
        /\ \A i \in Decided : svcLog.calls[i].client \in rstats.unique_ips

(* the endpoint limiter's budget of a configuration: max_requests or capacity *)
BudgetOf(cfg) == IF cfg.type = "token_bucket" THEN cfg.capacity ELSE cfg.max_requests

AdmittedBy(c, e) == {i \in 1..Len(svcLog.calls) :
                        /\ svcLog.calls[i].ok
                        /\ svcLog.calls[i].client = c
                        /\ svcLog.calls[i].endpoint = e}

(* C18: one limiter instance per (client, endpoint).  With no reset in         *)
(* between, all calls of a client on a configured endpoint are decided by the  *)
(* same limiter object, and the calls admitted at one instant of time are at   *)
(* most the endpoint's max_requests (capacity for a token bucket).             *)
C18_OneInstance ==
    ~svcLog.reset =>
        \A c \in Clients : \A e \in DOMAIN limiters :
            /\ \A i, j \in AdmittedBy(c, e) :
                  svcLog.calls[i].limiter = svcLog.calls[j].limiter
            /\ \A i \in AdmittedBy(c, e) :
                  Cardinality({j \in AdmittedBy(c, e) : svcLog.calls[j].at = svcLog.calls[i].at})
                      <= BudgetOf(limiters[e].config)

----------------------------------------------------------------------------
(* Claims about with_retry *)

(* the first attempt, counted from 1, at which the wrapped function returns or *)
(* raises an exception whose type is listed in reraise_exceptions; 0 if none   *)
StopAt ==
    LET S == {i \in 1..Len(retry.plan) :
                 retry.plan[i] = "return" \/ retry.plan[i] \in retry.reraise_exceptions}
    IN  IF S = {} THEN 0 ELSE CHOOSE i \in S : \A j \in S : i <= j

RECURSIVE SumSeq(_)
SumSeq(q) == IF q = <<>> THEN 0 ELSE Head(q) + SumSeq(Tail(q))

(* C13: immediate re-raise.  When an attempt raises an exception whose type is *)
(* listed in reraise_exceptions, the function is not invoked again: the call   *)
(* ends by raising that very exception, with no sleep after it, also when a    *)
(* fallback value is configured.  A function that does so on its first attempt *)
(* is invoked exactly once and no delay is taken at all.                       *)
C13_ImmediateReraise ==
    (StopAt > 0 /\ retry.plan[StopAt] # "return") =>
        /\ retry.calls <= StopAt
        /\ retry.pc = "done" =>
              /\ retry.calls = StopAt
              /\ retry.out = Raised([type |-> retry.plan[StopAt], at |-> StopAt - 1])
              /\ Len(retry.delays) = StopAt - 1

(* a ValueError on the first of three attempts was re-raised past the fallback *)
C13_Witness ==
    /\ retry.pc = "done"
    /\ retry.cfg.max_attempts = 3
    /\ retry.reraise_exceptions = {"ValueError"} /\ retry.plan[1] = "ValueError"
    /\ retry.fallback_value = "fallback"
    /\ retry.calls = 1 /\ retry.out.kind = "raise" /\ retry.delays = <<>>

(* C14: exhaustion.  With max_attempts >= 1, when every attempt raises an      *)
(* exception that is not listed, the function is invoked exactly max_attempts  *)
(* times; the call then returns fallback_value if it is not None and otherwise *)
(* raises the exception of the last attempt.                                   *)
C14_Exhaustion ==
    (retry.pc = "done" /\ StopAt = 0) =>
        /\ retry.calls = retry.cfg.max_attempts
        /\ retry.out =
              IF retry.fallback_value # None THEN Returned(retry.fallback_value)
              ELSE Raised([type |-> retry.plan[retry.cfg.max_attempts],
                           at |-> retry.cfg.max_attempts - 1])

(* three attempts failed, with different exceptions, and the third was raised *)
C14_Witness ==
    /\ retry.pc = "done" /\ StopAt = 0
    /\ retry.cfg.max_attempts = 3 /\ retry.calls = 3
    /\ retry.fallback_value = None
    /\ retry.plan[1] # retry.plan[3]
    /\ retry.out.kind = "raise" /\ retry.out.exc.at = 2

(* C15: success.  When the attempts 1..k-1 raise exceptions that are not       *)
(* listed and attempt k <= max_attempts returns, the function is invoked       *)
(* exactly k times and the call returns the value of attempt k, never the      *)
(* fallback, after exactly k-1 sleeps.                                         *)
C15_Success ==
    (StopAt > 0 /\ retry.plan[StopAt] = "return") =>
        /\ retry.calls <= StopAt
        /\ retry.pc = "done" =>
              /\ retry.calls = StopAt
              /\ retry.out = Returned(ResultOf(StopAt - 1))
              /\ Len(retry.delays) = StopAt - 1

(* the last of three attempts returned, with a fallback configured *)
C15_Witness ==
    /\ retry.pc = "done" /\ StopAt = 3 /\ retry.plan[3] = "return"
    /\ retry.fallback_value = "fallback"
    /\ retry.calls = 3 /\ retry.out.kind = "return" /\ Len(retry.delays) = 2

(* C16: backoff bound.  The sleep after the failed attempt of zero-based index *)
(* i is min(max_delay, base_delay * exponential_base^i), times a factor in     *)
(* [0.5, 1.0] when jitter is on; no sleep follows the last attempt; so every   *)
(* sleep is at most max_delay and all of them together at most                 *)
(* max_delay * (max_attempts - 1).  Delays are in quarters of a second.        *)
C16_BackoffBound ==
    LET cfg == retry.cfg
        d == retry.delays
    IN  /\ \A i \in 1..Len(d) :
              LET b == Min(cfg.max_delay, cfg.base_delay * Pow(cfg.exponential_base, i - 1))
              IN  /\ cfg.jitter => 2 * b <= d[i] /\ d[i] <= 4 * b
                  /\ ~cfg.jitter => d[i] = 4 * b
                  /\ d[i] <= 4 * cfg.max_delay
        /\ Len(d) <= cfg.max_attempts - 1
        /\ retry.pc \in {"exhausted", "done"} => Len(d) = retry.calls - 1
        /\ retry.pc = "sleep" => Len(d) = retry.calls - 1 /\ retry.calls < cfg.max_attempts
        /\ SumSeq(d) <= 4 * cfg.max_delay * (cfg.max_attempts - 1)

(* the second sleep was cut down to max_delay and the first one was jittered *)
C16_Witness ==
    /\ retry.pc = "done" /\ retry.calls = 3 /\ Len(retry.delays) = 2
    /\ retry.cfg.jitter
    /\ retry.cfg.base_delay * retry.cfg.exponential_base > retry.cfg.max_delay
    /\ retry.delays[1] = 2 * retry.cfg.base_delay
    /\ retry.delays[2] = 4 * retry.cfg.max_delay

----------------------------------------------------------------------------
(* Claims about locking *)

(* the places outside every `with lock:` block where a thread runs a callback  *)
(* or waits: a fetch_func of get_or_set, a registered refresh function, the    *)
(* sleep between two attempts of with_retry                                    *)
CallbackPcs == {"fetch_func", "refresh_func", "retry_sleep"}

CacheBlockPcs == {"in_cache_op", "gos_in_get", "gos_in_set", "rf_in_scan", "rf_in_set"}

(* C19: no lock across callbacks or waits.  A thread that is running a         *)
(* fetch_func, a refresh function or a retry sleep holds neither the cache     *)
(* lock nor a limiter lock; a lock is held only by a thread inside the `with`  *)
(* block that took it, so the other threads' cache operations can go on.       *)
C19_NoLockAcrossCallbacks ==
    /\ \A t \in Threads :
          th[t] \in CallbackPcs => locks.cache # t /\ locks.limiter # t
    /\ locks.cache # None => th[locks.cache] \in CacheBlockPcs
    /\ locks.limiter # None => th[locks.limiter] = "in_limiter_op"

(* one worker is in its fetch_func and the refresher in a refresh function     *)
(* while the other worker is inside a cache operation, holding the lock        *)
C19_Witness ==
    /\ th["w1"] = "fetch_func"
    /\ th[Refresher] = "refresh_func"
    /\ th["w2"] = "in_cache_op" /\ locks.cache = "w2"

----------------------------------------------------------------------------
(* Claims about concurrent get_or_set *)

EntriesOf(c, k) == {i \in 1..Len(c) : c[i].key = k}

(* C20: no single-flight.  Two workers that miss the same key both call their  *)
(* fetch_func.  Each get_or_set that fetched a value returns the value it      *)
(* fetched itself, whatever the other worker fetched or stored meanwhile; its  *)
(* set leaves exactly one entry for the key, holding that value, so the entry  *)
(* left after both is the later set's; and the store never exceeds             *)
(* max_entries.                                                                *)
C20_NoSingleFlight ==
    [][\A w \in Workers :
          GosSet(w) =>
              /\ ev'.op = "get_or_set" /\ ev'.res = gos[w].fresh
              /\ Cardinality(EntriesOf(cache', gos[w].key)) = 1
              /\ EntryOf(cache', gos[w].key).data = gos[w].fresh
              /\ Len(cache') <= max_entries
              /\ \A u \in Workers \ {w} : gos'[u] = gos[u]]_vars

(* both workers missed key A and fetched, different values; the first has      *)
(* stored its value and returned it, the second is about to store its own      *)
C20_Witness ==
    /\ gos["w1"].pc = "set" /\ gos["w1"].key = "A" /\ gos["w1"].fresh = "v1"
    /\ gos["w2"].pc = "idle"
    /\ ev.op = "get_or_set" /\ ev.key = "A" /\ ev.res = "v2" /\ ev.fetch = "value"
    /\ Cardinality(EntriesOf(cache, "A")) = 1
    /\ EntryOf(cache, "A").data = "v2"
    /\ stats.hits = 0 /\ stats.misses = 2 /\ stats.evictions = 0

----------------------------------------------------------------------------
(* Claims about the background refresh *)

(* the key the refresh thread is working on *)
RfKey == Head(rf.stale_keys)

NoDuplicates(q) == \A i, j \in 1..Len(q) : q[i] = q[j] => i = j

(* every entry of c under another key than k is in d, unchanged *)
OthersKept(c, d, k) == \A i \in 1..Len(c) : c[i].key # k => c[i] \in Range(d)

(* C21: refresh selection.  The snapshot of a cycle holds exactly the keys     *)
(* that have a stale entry and a registered function, each once, and the       *)
(* cycle works through them one by one; no step of the cycle changes or        *)
(* removes the entry of another key; a value returned is stored under the key  *)
(* with created_at = now and refreshes grows by one; a None changes neither    *)
(* the entries nor the counters.                                               *)
C21_RefreshSelection ==
    [][/\ RefreshScan =>
              /\ NoDuplicates(rf'.stale_keys)
              /\ \A k \in Keys :
                    k \in Range(rf'.stale_keys) <=>
                        /\ k \in KeysOf(cache)
                        /\ now - EntryOf(cache, k).created_at > stale_threshold
                        /\ ~(now - EntryOf(cache, k).created_at > EntryOf(cache, k).ttl_seconds)
                        /\ k \in refresh_functions
       /\ (rf.pc # "wait" /\ rf'.stale_keys # rf.stale_keys) =>
              \/ rf'.stale_keys = Tail(rf.stale_keys)
              \/ rf'.pc = "wait" /\ Len(rf.stale_keys) = 1
       /\ RefreshSet =>
              /\ OthersKept(cache, cache', RfKey)
              /\ RfKey \in KeysOf(cache')
              /\ EntryOf(cache', RfKey).data = rf.fresh
              /\ EntryOf(cache', RfKey).created_at = now
              /\ stats' = stats
       /\ RefreshCount => cache' = cache /\ stats' = [stats EXCEPT !.refreshes = @ + 1]
       /\ RefreshCall(None) => cache' = cache /\ stats' = stats
       /\ (RefreshScan \/ RefreshCall("v2") \/ RefreshCall(Raise)) => cache' = cache]_vars

(* C22: refresh preserves the ttl.  When the refresh thread stores the value   *)
(* its refresh function returned over the entry of the key, the entry's        *)
(* ttl_seconds afterwards is the ttl_seconds it had before.                    *)
C22_RefreshKeepsTtl ==
    [][(RefreshSet /\ RfKey \in KeysOf(cache)) =>
           EntryOf(cache', RfKey).ttl_seconds = EntryOf(cache, RfKey).ttl_seconds]_vars

(* C23: refresh preserves the access counters.  When the refresh thread stores *)
(* the value over the entry of the key, access_count and last_accessed of the  *)
(* entry are afterwards what they were before, and the entry that the next     *)
(* eviction would select is the same.                                          *)
C23_RefreshKeepsCounters ==
    [][(RefreshSet /\ RfKey \in KeysOf(cache)) =>
           /\ EntryOf(cache', RfKey).access_count = EntryOf(cache, RfKey).access_count
           /\ EntryOf(cache', RfKey).last_accessed = EntryOf(cache, RfKey).last_accessed
           /\ cache'[lru_index(cache')].key = cache[lru_index(cache)].key]_vars

(* C24: refresh failure isolation.  When the refresh function of a key raises, *)
(* the entries are left as they were, errors grows by one and no other counter *)
(* changes, and the refresh thread goes on: to the next key of its snapshot,   *)
(* or, after the last one, to wait for its next cycle.                         *)
C24_RefreshFailureIsolated ==
    [][/\ (RefreshCall(Raise) \/ RefreshErrLoad) => cache' = cache /\ stats' = stats
       /\ RefreshErrStore =>
              /\ cache' = cache
              /\ stats' = [stats EXCEPT !.errors = @ + 1]
              /\ IF Len(rf.stale_keys) > 1
                 THEN rf'.pc = "call" /\ rf'.stale_keys = Tail(rf.stale_keys)
                 ELSE rf'.pc = "wait" /\ rf'.wake = now + refresh_interval]_vars

----------------------------------------------------------------------------
(* Claims about clear and the counters *)

Counters == {"hits", "misses", "evictions", "refreshes", "errors"}

(* C27: clear removes all entries and changes no statistic.  clear leaves the  *)
(* store empty, the counters and the registered refresh functions as they      *)
(* were; a get on the empty store is a miss; and no step of any operation      *)
(* lowers a counter.                                                           *)
C27_ClearKeepsStats ==
    [][/\ Clear => /\ cache' = <<>>
                   /\ stats' = stats
                   /\ refresh_functions' = refresh_functions
       /\ \A k \in Keys : (Get(k) /\ cache = <<>>) =>
              /\ ev'.res = None
              /\ stats'.misses = stats.misses + 1
              /\ cache' = <<>>
       /\ \A x \in Counters : stats'[x] >= stats[x]]_vars

----------------------------------------------------------------------------
(* Claims about staleness *)

(* the ages at which is_stale of an entry is evaluated: its age now, and the   *)
(* ages at and next to the two thresholds that is_stale compares the age with  *)
AgesOf(e) ==
    {0, now - e.created_at, default_ttl + stale_threshold}
        \cup {stale_threshold - 1, stale_threshold, stale_threshold + 1}
        \cup {e.ttl_seconds - 1, e.ttl_seconds, e.ttl_seconds + 1}

ShortLived(e) == e.ttl_seconds <= stale_threshold

----------------------------------------------------------------------------
(* Claims about unconfigured endpoints and reset_client_limits *)

Unconfigured(e) == e \notin DOMAIN limiters

(* C29: an unconfigured endpoint is a normal outcome.  A call of is_allowed    *)
(* for an endpoint without configured limit that the global limiter, if any,   *)
(* admits goes straight to the allowed branch: it creates no limiter and no    *)
(* entry for the endpoint, raises nothing, adds one to requests_allowed and    *)
(* returns True with limit type 'none'.                                        *)
C29_UnconfiguredAllowed ==
    [][\A w \in Workers :
          Unconfigured(req[w].endpoint) =>
              /\ SvcEndpointCheck(w) => req'[w].pc = "allow_load"
              /\ req'[w] # req[w] => limiters' = limiters /\ heap' = heap
              /\ SvcAllowedStore(w) =>
                    /\ rstats'.requests_allowed = rstats.requests_allowed + 1
                    /\ Len(svcLog'.calls) = Len(svcLog.calls) + 1
                    /\ LET d == svcLog'.calls[Len(svcLog'.calls)]
                       IN  d.ok /\ d.limit_type = "none" /\ d.limiter = 0
                           /\ d.endpoint = req[w].endpoint]_vars

(* a limiter that has admitted nothing yet *)
FullBudget(o) ==
    IF IsBucket(o) THEN o.tokens = o.capacity * o.refill_rate.den ELSE o.requests = <<>>

(* C26: reset_client_limits(client_id) removes the client's limiter instance   *)
(* of every endpoint and nothing else: the other clients' instances, the       *)
(* configurations, the limiter objects, the global limiter and the statistics  *)
(* are as before.  A call of the client that begins after the reset is decided *)
(* by a limiter created after the reset, which starts with its full budget.    *)
C26_ResetOnlyClient ==
    [][/\ \A c \in Clients :
              ResetClientLimits(c) =>
                  /\ DOMAIN limiters' = DOMAIN limiters
                  /\ \A e \in DOMAIN limiters :
                        /\ limiters'[e].config = limiters[e].config
                        /\ DOMAIN limiters'[e].inst = DOMAIN limiters[e].inst \ {c}
                        /\ \A d \in DOMAIN limiters'[e].inst :
                              limiters'[e].inst[d] = limiters[e].inst[d]
                  /\ heap' = heap
                  /\ global_limiter' = global_limiter
                  /\ rstats' = rstats
       /\ \A w \in Workers :
              /\ SvcCreate(w) =>
                    /\ limiters'[req[w].endpoint].inst[req[w].client] = Len(heap')
                    /\ Len(heap') = Len(heap) + 1
                    /\ FullBudget(heap'[Len(heap')])
              /\ (SvcLookup(w) /\ req[w].epoch >= 0 /\ req'[w].pc = "decide") =>
                    req'[w].limiter > req[w].epoch]_vars

(* the client used up its one request, its limits were reset, and its next     *)
(* call, in the same window, was admitted by a second limiter                  *)
C26_Witness ==
    /\ Len(svcLog.calls) = 2
    /\ svcLog.calls[1].ok /\ svcLog.calls[1].limiter = 1 /\ svcLog.calls[1].epoch = -1
    /\ svcLog.calls[2].ok /\ svcLog.calls[2].limiter = 2 /\ svcLog.calls[2].epoch = 1
    /\ svcLog.calls[2].client = svcLog.calls[1].client
    /\ svcLog.calls[2].endpoint = svcLog.calls[1].endpoint
    /\ svcLog.calls[2].at = svcLog.calls[1].at
    /\ BudgetOf(limiters[svcLog.calls[1].endpoint].config) = 1

----------------------------------------------------------------------------
(* Claims about the logger *)

(* C30: a debug message that cannot be emitted changes nothing: set stores the *)
(* entry, counts what it counts otherwise and returns True, and get returns    *)
(* what it returns otherwise, with the same cache and counters, and does not   *)
(* raise.                                                                      *)
C30_LogFailureHarmless ==
    [][/\ \A k \in Keys, d \in {"v1"}, ttl \in TtlArgs :
              SetLogRaises(k, d, ttl) =>
                  /\ cache' = set_cache(cache, k, d, ttl, now)
                  /\ stats' = set_stats(stats, cache, k)
                  /\ ev'.res = "True"
                  /\ ~ev'.exc
       /\ \A k \in Keys :
              GetLogRaises(k) =>
                  /\ cache' = get_cache(cache, k, now)
                  /\ stats' = get_stats(stats, cache, k, now)
                  /\ ev'.res = get_value(cache, k, now)
                  /\ ~ev'.exc]_vars

----------------------------------------------------------------------------
(* Claims about blocking *)

----------------------------------------------------------------------------
(* Claims about the ttl argument of set *)

(* C38: an explicit ttl is honoured for every value.  After set(key, v, ttl)   *)
(* the entry of key has ttl_seconds equal to the ttl that was passed, ttl = 0  *)
(* included; default_ttl is used only when the argument is left out.           *)
C38_ExplicitTtlHonoured ==
    [][ev'.op = "set" /\ ev'.res = "True" =>
           EntryOf(cache', ev'.key).ttl_seconds = GivenTtl(ev'.ttl)]_vars

----------------------------------------------------------------------------
(* Claims about the fallback and the listed exception types of with_retry *)

(* no attempt made so far returned *)
EveryAttemptFailed == \A i \in 1..retry.calls : retry.plan[i] # "return"

(* C36: a fallback of None is no fallback.  When every attempt failed and      *)
(* fallback_value is None, the call raises the exception of its last attempt   *)
(* and does not return None; a call whose attempts all failed returns only     *)
(* when fallback_value is not None, and then it returns that value.            *)
C36_NoneIsNoFallback ==
    (retry.pc = "done" /\ EveryAttemptFailed) =>
        /\ retry.fallback_value = None =>
              /\ retry.out.kind = "raise"
              /\ retry.out.exc = [type |-> retry.plan[retry.calls], at |-> retry.calls - 1]
        /\ retry.out.kind = "return" =>
              /\ retry.fallback_value # None
              /\ retry.out.value = retry.fallback_value

(* two attempts failed with no exception listed and no fallback: the second    *)
(* exception was raised                                                        *)
C36_Witness ==
    /\ retry.pc = "done" /\ EveryAttemptFailed
    /\ retry.cfg.max_attempts = 2 /\ retry.calls = 2
    /\ retry.reraise_exceptions = {}
    /\ retry.fallback_value = None
    /\ retry.out = Raised([type |-> "ConnectionError", at |-> 1])

(* Python's exception classes: UnicodeError is a subclass of ValueError *)
StrictSubclass(t, c) == t = "UnicodeError" /\ c = "ValueError"

SubclassOfListed(t) ==
    /\ t \notin retry.reraise_exceptions
    /\ \E c \in retry.reraise_exceptions : StrictSubclass(t, c)

(* C37: immediate re-raise matches the exact type only.  An attempt that       *)
(* raises an exception of exactly a listed type ends the call, which raises    *)
(* that exception; an attempt that raises a strict subclass of a listed type   *)
(* is retried like any other failure, so it ends the call only as the last of  *)
(* max_attempts attempts, and then the fallback is returned if there is one.   *)
C37_ExactTypeOnly ==
    \A i \in 1..retry.calls :
        /\ retry.plan[i] \in retry.reraise_exceptions =>
              /\ i = retry.calls
              /\ retry.pc = "done"
              /\ retry.out = Raised([type |-> retry.plan[i], at |-> i - 1])
        /\ SubclassOfListed(retry.plan[i]) =>
              /\ retry.pc = "done" /\ i = retry.calls =>
                    /\ i = retry.cfg.max_attempts
                    /\ retry.fallback_value # None => retry.out = Returned(retry.fallback_value)
              /\ retry.pc \in {"sleep", "try"} => i < retry.cfg.max_attempts

(* ValueError is listed and every one of three attempts raised UnicodeError:   *)
(* the function was invoked three times and the fallback was returned          *)
C37_Witness ==
    /\ retry.pc = "done"
    /\ retry.reraise_exceptions = {"ValueError"}
    /\ retry.cfg.max_attempts = 3 /\ retry.calls = 3
    /\ \A i \in 1..3 : retry.plan[i] = "UnicodeError"
    /\ retry.out = Returned("fallback")

----------------------------------------------------------------------------
(* Claims about a refresh cycle racing with foreground operations *)

(* C32: invalidate is not undone by an in-flight refresh.  When the last       *)
(* foreground operation was an invalidate(key) that returned True, or a clear, *)
(* the set of a refresh cycle that took its snapshot earlier does not put the  *)
(* key back and does not evict another entry for it: the key stays absent, and *)
(* after a clear the store stays empty.                                        *)
C32_InvalidateNotUndone ==
    [][ev'.op = "refresh_set" =>
           /\ (ev.op = "invalidate" /\ ev.res = "True") =>
                 /\ ev.key \notin KeysOf(cache')
                 /\ ev'.key = ev.key => cache' = cache
           /\ ev.op = "clear" => cache' = <<>>]_vars

(* C33: refresh does not overwrite newer data.  When the last foreground       *)
(* operation was a set(key, v) that completed while a refresh cycle was        *)
(* between calling key's refresh function and writing its result, the entry    *)
(* of key still holds v after the cycle has written.                           *)
C33_RefreshKeepsNewerData ==
    [][(ev'.op = "refresh_set" /\ ev.op = "set" /\ ev.log = "during_refresh") =>
           /\ ev'.key = ev.key
           /\ EntryOf(cache', ev.key).data = ev.data]_vars

----------------------------------------------------------------------------
(* Claims about the global window and about reconfigured endpoints *)

FinallyAdmitted == {i \in 1..Len(svcLog.calls) : svcLog.calls[i].ok}

(* every call so far returned a decision: none ended with an error *)
AllDecided ==
    \A i \in 1..Len(svcLog.calls) : svcLog.calls[i].limit_type \in {"none", "global", "endpoint"}

(* C34: the global budget is charged only for admitted requests.  When no call *)
(* is in progress and every call returned a decision, the global window holds  *)
(* one timestamp for each call that was finally admitted within the window,    *)
(* and none for a call that passed the global limiter and was then blocked by  *)
(* its endpoint limiter.                                                       *)
C34_GlobalChargedForAdmitted ==
    (global_limiter # <<>> /\ AllDecided /\ \A w \in Workers : req[w].pc = "idle") =>
        Len(prune(global_limiter[1].requests, global_limiter[1].window_seconds, now))
            = Cardinality({i \in FinallyAdmitted :
                              svcLog.calls[i].at > now - global_limiter[1].window_seconds})

(* the calls that went past the global limiter: those that have returned, and  *)
(* those still in progress                                                     *)
PastGlobalReturned ==
    {i \in 1..Len(svcLog.calls) :
        /\ svcLog.calls[i].limit_type # "global"
        /\ svcLog.calls[i].at > now - global_limiter[1].window_seconds}

PastGlobalRunning ==
    {w \in Workers : req[w].pc \notin {"idle", "global"} /\ req[w].limit_type # "global"}

(* C34, as the code has it: the global budget is charged at the global check.  *)
(* In every state the global window holds one timestamp for each call that the *)
(* global limiter let pass within the window, whether the endpoint limiter     *)
(* then admitted or blocked it, and none for a call the global limiter         *)
(* blocked.                                                                    *)
C34_GlobalChargedAtGlobalCheck ==
    global_limiter # <<>> =>
        Len(prune(global_limiter[1].requests, global_limiter[1].window_seconds, now))
            = Cardinality(PastGlobalReturned) + Cardinality(PastGlobalRunning)

(* of two calls of one client, both let pass by the global limiter, the second *)
(* was blocked by the endpoint limiter: the global window holds two timestamps *)
C34_Witness ==
    /\ global_limiter # <<>>
    /\ \A w \in Workers : req[w].pc = "idle"
    /\ Len(svcLog.calls) = 2
    /\ svcLog.calls[1].ok
    /\ ~svcLog.calls[2].ok /\ svcLog.calls[2].limit_type = "endpoint"
    /\ Len(global_limiter[1].requests) = 2

----------------------------------------------------------------------------
(* Claims about stop *)

(* stop has been called and has returned *)
StopReturned ==
    locks.stop_refresh /\ \A t \in Threads : th[t] \notin {"stop_join", "stop_clear"}

(* C31: shutdown of the refresher.  Once stop has returned, no refresh cycle   *)
(* starts and the refresher writes no entry: a cycle that was running when     *)
(* stop was called stores nothing after stop's clear, so the store is empty    *)
(* until a foreground set.                                                     *)
C31_NoWriteAfterStop ==
    [][StopReturned =>
           /\ ~(rf.pc = "wait" /\ rf'.pc = "call")
           /\ ~RefreshSet
           /\ (cache = <<>> /\ cache' # <<>>) => ev'.op = "set"]_vars

(* C35: the instance's type matches the configured algorithm.  Also after      *)
(* configure_endpoint_limit has changed the algorithm of an endpoint that has  *)
(* instances, a call that is about to decide holds a limiter of the type its   *)
(* configuration names (consume for a TokenBucket, is_allowed for a            *)
(* SlidingWindowLimiter), and no call ends with an AttributeError.             *)
C35_InstanceMatchesAlgorithm ==
    /\ \A w \in Workers :
          req[w].pc = "decide" =>
              (IsBucket(heap[req[w].limiter]) <=> req[w].cfg.type = "token_bucket")
    /\ \A i \in 1..Len(svcLog.calls) : svcLog.calls[i].limit_type # "AttributeError"

====
